---- MODULE Spec2Model ----
(***************************************************************************)
(* A model of the lazy JSON reader of jdferreira/sleepyjson.                *)
(*                                                                         *)
(* The repository holds two generations of the engine:                     *)
(*   lazyjson/node.py, lazyjson/reader.py   the caching Node and the Reader *)
(*   sleepyjson/parser.py, sleepyjson/node.py   the Parser (chunked         *)
(*                                          scanners) and the generator     *)
(*                                          based Node                      *)
(* Both are modelled.  Definitions that start with L model lazyjson, those *)
(* that start with S model sleepyjson.                                     *)
(*                                                                         *)
(* A source is a record [data, binary, seekable]: data is the sequence of  *)
(* its bytes (one-character strings), offsets are 0-based as in the code.  *)
(* A text (a decoded string) is a sequence of code points.                 *)
(***************************************************************************)
EXTENDS Integers, Sequences, FiniteSets, TLC

(***************************************************************************)
(* Python's None, for the optional integers size and end.                  *)
(***************************************************************************)
None == 0 - 1

\* v bound to a name in K: K(v)
With(v, K(_)) == K(v)

Min(a, b) == IF a < b THEN a ELSE b
Max(a, b) == IF a > b THEN a ELSE b

(***************************************************************************)
(* The file object: read(n) at a cursor, and the end of file.              *)
(***************************************************************************)
\* file.read(n) with the cursor at pos: at most n bytes, <<>> at the end
FRead(f, pos, n) ==
    IF pos >= Len(f.data) \/ n <= 0 THEN <<>>
    ELSE SubSeq(f.data, pos + 1, Min(pos + n, Len(f.data)))

\* the byte at offset pos, "" when there is none (read(1) at the end)
ByteAt(f, pos) == IF pos >= 0 /\ pos < Len(f.data) THEN f.data[pos + 1] ELSE ""

\* the empty value of the file's kind is '' for a text file, b'' for a binary one
\* file.read(0)
FileType(f) == IF f.binary THEN "bytes" ELSE "str"

BinFile(d) == [data |-> d, binary |-> TRUE, seekable |-> TRUE]
TextFile(d) == [data |-> d, binary |-> FALSE, seekable |-> TRUE]

\* buf.startswith(prefix)
StartsWith(buf, prefix) ==
    /\ Len(buf) >= Len(prefix)
    /\ SubSeq(buf, 1, Len(prefix)) = prefix

\* x in buf
Contains(buf, c) == \E i \in 1..Len(buf) : buf[i] = c

\* buf.find(c, from) with 0-based offsets, -1 when absent
RECURSIVE Find(_, _, _)
Find(buf, c, from) ==
    IF from >= Len(buf) THEN 0 - 1
    ELSE IF buf[from + 1] = c THEN from
    ELSE Find(buf, c, from + 1)

Digits == {"0", "1", "2", "3", "4", "5", "6", "7", "8", "9"}
DigitVal(c) ==
    CASE c = "0" -> 0 [] c = "1" -> 1 [] c = "2" -> 2 [] c = "3" -> 3
      [] c = "4" -> 4 [] c = "5" -> 5 [] c = "6" -> 6 [] c = "7" -> 7
      [] c = "8" -> 8 [] c = "9" -> 9

WHITESPACE == {"\r", "\n", "\t", " "}
NumberChars == Digits \cup {"-", "+", "e", "E", "."}
NUMBER_DETERMINANTS == Digits \cup {"-"}
MAX_NEEDED_CHARS == 5
\* sleepyjson/parser.py BUF_LENGTH, and the literal 1024 of lazyjson's measure_string
BUF_LENGTH == 1024
LReadSize == 1024

(***************************************************************************)
(* lazyjson/node.py: the scanner routines of the caching Node.             *)
(***************************************************************************)
\* Node.skip_skippable: the cursor after the loop that starts at pos
RECURSIVE LSkipLoop(_, _, _)
LSkipLoop(f, pos, in_comment) ==
    With(ByteAt(f, pos), LAMBDA c :
    IF c = "" THEN pos
    ELSE IF in_comment THEN
        IF c = "\r" THEN
            IF ByteAt(f, pos + 1) = "\n"
            THEN LSkipLoop(f, pos + 2, FALSE)
            ELSE LSkipLoop(f, pos + 1, FALSE)
        ELSE IF c = "\n" THEN LSkipLoop(f, pos + 1, FALSE)
        ELSE LSkipLoop(f, pos + 1, TRUE)
    ELSE IF c \in WHITESPACE THEN LSkipLoop(f, pos + 1, FALSE)
    ELSE IF c = "/" THEN
        IF ByteAt(f, pos + 1) # "/"
        THEN LSkipLoop(f, pos + 1, FALSE)
        ELSE LSkipLoop(f, pos + 2, TRUE)
    ELSE pos)

LSkipSkippable(f, pos) == LSkipLoop(f, pos, FALSE)

\* Node.skip_comma / Node.skip_colon: [found, pos] from the cursor pos
LSkipDelim(f, pos, delim) ==
    With(LSkipSkippable(f, pos), LAMBDA p :
    IF ByteAt(f, p) = delim
    THEN [found |-> TRUE, pos |-> LSkipSkippable(f, p + 1)]
    ELSE [found |-> FALSE, pos |-> p])

LSkipComma(f, pos) == LSkipDelim(f, pos, ",")
LSkipColon(f, pos) == LSkipDelim(f, pos, ":")

\* Node.get_type: the type of the value at pos, "" with err set when none
GetTypeOf(buf) ==
    IF buf = <<>> THEN [err |-> "ValueError", type |-> ""]
    ELSE IF StartsWith(buf, <<"{">>) THEN [err |-> "", type |-> "OBJECT"]
    ELSE IF StartsWith(buf, <<"[">>) THEN [err |-> "", type |-> "ARRAY"]
    ELSE IF StartsWith(buf, <<"\"">>) THEN [err |-> "", type |-> "STRING"]
    ELSE IF StartsWith(buf, <<"t", "r", "u", "e">>) THEN [err |-> "", type |-> "TRUE"]
    ELSE IF StartsWith(buf, <<"f", "a", "l", "s", "e">>) THEN [err |-> "", type |-> "FALSE"]
    ELSE IF StartsWith(buf, <<"n", "u", "l", "l">>) THEN [err |-> "", type |-> "NULL"]
    ELSE IF buf[1] \in NUMBER_DETERMINANTS THEN [err |-> "", type |-> "NUMBER"]
    ELSE [err |-> "ValueError", type |-> ""]

LGetType(f, pos) == GetTypeOf(FRead(f, pos, MAX_NEEDED_CHARS))

\* measure_string: the inner loop that looks for an unescaped quote in buf
RECURSIVE LFindQuote(_, _)
LFindQuote(buf, from) ==
    With(Find(buf, "\"", from), LAMBDA q :
    IF q = 0 - 1 THEN q
    ELSE IF q >= 1 /\ buf[q] = "\\" THEN LFindQuote(buf, q + 1)
    ELSE q)

\* measure_string(file, pos), reading chunk bytes at a time; tell is where the
\* cursor is left
RECURSIVE LMeasureStringLoop(_, _, _, _)
LMeasureStringLoop(f, cur, result, chunk) ==
    With(FRead(f, cur, chunk), LAMBDA buf :
        With(LFindQuote(buf, 0), LAMBDA q :
        With(cur + Len(buf), LAMBDA after :
    IF buf = <<>> THEN [err |-> "ValueError", n |-> 0, tell |-> cur]
    ELSE IF q = 0 - 1 THEN
        IF Contains(buf, "\n") \/ Contains(buf, "\r")
        THEN [err |-> "ValueError", n |-> 0, tell |-> after]
        ELSE LMeasureStringLoop(f, after, result + Len(buf), chunk)
    ELSE
        With(SubSeq(buf, 1, q), LAMBDA head :
        IF Contains(head, "\n") \/ Contains(head, "\r")
        THEN [err |-> "ValueError", n |-> 0, tell |-> after]
        ELSE [err |-> "", n |-> result + q + 1, tell |-> after]))))

LMeasureStringChunked(f, pos, chunk) == LMeasureStringLoop(f, pos + 1, 1, chunk)
LMeasureString(f, pos) == LMeasureStringChunked(f, pos, LReadSize)

(***************************************************************************)
(* NUMBER_REGEX, the same in both packages:                                *)
(*   -? (?: 0 | [1-9]\d* ) (?: \.\d+ )? (?: [eE] [+-]? \d+ )?              *)
(* matched at the start of acc; each part is greedy and nothing after the  *)
(* match is looked at.  The result is m.end(), or None when m is None.     *)
(***************************************************************************)
\* the offset after the run of digits that starts at offset i
RECURSIVE DigitRun(_, _)
DigitRun(acc, i) ==
    IF i < Len(acc) /\ acc[i + 1] \in Digits THEN DigitRun(acc, i + 1) ELSE i

At(acc, i) == IF i >= 0 /\ i < Len(acc) THEN acc[i + 1] ELSE ""

NumberRegexEnd(acc) ==
    With(IF At(acc, 0) = "-" THEN 1 ELSE 0, LAMBDA i0 :
        With(IF At(acc, i0) = "0" THEN i0 + 1
              ELSE IF At(acc, i0) \in Digits THEN DigitRun(acc, i0)
              ELSE None, LAMBDA i1 :
        With(IF At(acc, i1) = "." /\ At(acc, i1 + 1) \in Digits
              THEN DigitRun(acc, i1 + 1) ELSE i1, LAMBDA i2 :
        With(IF At(acc, i2 + 1) \in {"+", "-"} THEN i2 + 2 ELSE i2 + 1, LAMBDA j :
        With(IF At(acc, i2) \in {"e", "E"} /\ At(acc, j) \in Digits
              THEN DigitRun(acc, j) ELSE i2, LAMBDA i3 :
    IF i1 = None THEN None ELSE i3)))))

\* the result of a measure_number once the run of number bytes is accumulated;
\* the error message indexes accumulated[0], which fails first on an empty run
MeasureAccumulated(acc) ==
    With(NumberRegexEnd(acc), LAMBDA e :
    IF e # None THEN [err |-> "", n |-> e]
    ELSE IF acc = <<>> THEN [err |-> "IndexError", n |-> 0]
    ELSE [err |-> "ValueError", n |-> 0])

\* measure_number of lazyjson: one byte at a time until a byte is no number byte
RECURSIVE LNumberRun(_, _)
LNumberRun(f, pos) ==
    IF ByteAt(f, pos) \in NumberChars THEN LNumberRun(f, pos + 1) ELSE pos

LMeasureNumber(f, pos) ==
    With(LNumberRun(f, pos), LAMBDA stop :
        With(MeasureAccumulated(FRead(f, pos, stop - pos)), LAMBDA r :
    [err |-> r.err, n |-> r.n, tell |-> Min(stop + 1, Max(stop, Len(f.data)))]))

(***************************************************************************)
(* Materialized values.  Every value is a record of the same shape:        *)
(*   kind   "null", "true", "false", "int", "float", "str", "list", "dict" *)
(*   m, e   a number m * 10^e, normalized (m has no trailing zero)         *)
(*   text   the code points of a str                                       *)
(*   keys   the keys of a dict in insertion order                          *)
(*   items  the elements of a list, or the values of a dict by key         *)
(***************************************************************************)
Val(kind) == [kind |-> kind, m |-> 0, e |-> 0, text |-> <<>>, keys |-> <<>>, items |-> <<>>]
VNull == Val("null")
VTrue == Val("true")
VFalse == Val("false")
VStr(t) == [Val("str") EXCEPT !.text = t]
VList(items) == [Val("list") EXCEPT !.items = items]
VDict(keys, items) == [Val("dict") EXCEPT !.keys = keys, !.items = items]

RECURSIVE Normalize(_, _)
Normalize(m, e) ==
    IF m = 0 THEN [m |-> 0, e |-> 0]
    ELSE IF m % 10 = 0 THEN Normalize(m \div 10, e + 1)
    ELSE [m |-> m, e |-> e]

VNum(kind, m, e) ==
    With(Normalize(m, e), LAMBDA n : [Val(kind) EXCEPT !.m = n.m, !.e = n.e])

\* the digits of lit from offset i up to (not including) offset j, as a number
RECURSIVE DigitsValue(_, _, _, _)
DigitsValue(lit, i, j, acc) ==
    IF i >= j THEN acc ELSE DigitsValue(lit, i + 1, j, acc * 10 + DigitVal(lit[i + 1]))

\* int(literal) succeeds on an optional sign followed by digits only
IntParses(lit) ==
    With(IF At(lit, 0) \in {"-", "+"} THEN 1 ELSE 0, LAMBDA i0 :
    /\ Len(lit) > i0
    /\ \A i \in (i0 + 1)..Len(lit) : lit[i] \in Digits)

\* the number a literal of the number grammar denotes, as [m, e] before normalizing
LiteralNumber(lit) ==
    With(IF At(lit, 0) = "-" THEN 1 ELSE 0, LAMBDA i0 :
        With(DigitRun(lit, i0), LAMBDA i1 :
        With(At(lit, i1) = ".", LAMBDA hasFrac :
        With(IF hasFrac THEN DigitRun(lit, i1 + 1) ELSE i1, LAMBDA i2 :
        With(IF hasFrac THEN i2 - (i1 + 1) ELSE 0, LAMBDA fracLen :
        With(At(lit, i2) \in {"e", "E"}, LAMBDA hasExp :
        With(IF At(lit, i2 + 1) \in {"+", "-"} THEN i2 + 2 ELSE i2 + 1, LAMBDA j :
        With(IF hasExp THEN DigitsValue(lit, j, Len(lit), 0) ELSE 0, LAMBDA expVal :
        With(IF hasExp /\ At(lit, i2 + 1) = "-" THEN 0 - 1 ELSE 1, LAMBDA expSign :
        With(DigitsValue(lit, i0, i1, 0), LAMBDA intPart :
        With(IF hasFrac THEN DigitsValue(lit, i1 + 1, i2, intPart) ELSE intPart, LAMBDA mant :
        With(IF i0 = 1 THEN 0 - 1 ELSE 1, LAMBDA sign :
    [m |-> sign * mant, e |-> expSign * expVal - fracLen]))))))))))))

\* float(literal)
FloatOf(lit) == With(LiteralNumber(lit), LAMBDA n : VNum("float", n.m, n.e))
\* int(literal)
IntOf(lit) == With(LiteralNumber(lit), LAMBDA n : VNum("int", n.m, n.e))

\* Node.parse_number of lazyjson once the literal is read: float(string)
LParseNumberLiteral(lit) == FloatOf(lit)

\* Node.value of sleepyjson on a NUMBER: int(literal), float(literal) on ValueError
SParseNumberLiteral(lit) == IF IntParses(lit) THEN IntOf(lit) ELSE FloatOf(lit)

(***************************************************************************)
(* Decoding string literals.  Ord gives the code point of a source byte;   *)
(* the sources of the model are ASCII, so decode('utf8') maps a byte to    *)
(* its own code point.                                                     *)
(***************************************************************************)
Ord(c) ==
    CASE c = "\t" -> 9 [] c = "\n" -> 10 [] c = "\r" -> 13 [] c = " " -> 32
      [] c = "\"" -> 34 [] c = "+" -> 43 [] c = "," -> 44 [] c = "-" -> 45
      [] c = "." -> 46 [] c = "/" -> 47 [] c \in Digits -> 48 + DigitVal(c)
      [] c = ":" -> 58 [] c = "A" -> 65 [] c = "E" -> 69 [] c = "[" -> 91
      [] c = "\\" -> 92 [] c = "]" -> 93 [] c = "a" -> 97 [] c = "b" -> 98
      [] c = "c" -> 99 [] c = "d" -> 100 [] c = "e" -> 101 [] c = "f" -> 102
      [] c = "l" -> 108 [] c = "n" -> 110 [] c = "r" -> 114 [] c = "s" -> 115
      [] c = "t" -> 116 [] c = "u" -> 117 [] c = "x" -> 120 [] c = "{" -> 123
      [] c = "}" -> 125

\* bytes.decode / str of a run of source bytes: their code points
OrdAll(bytes) == [i \in 1..Len(bytes) |-> Ord(bytes[i])]

\* ESCAPE_CHARACTERS_MAP (sleepyjson) and MAP (lazyjson): None when absent
EscapeMap(c) ==
    CASE c = "\"" -> 34 [] c = "\\" -> 92 [] c = "/" -> 47 [] c = "b" -> 8
      [] c = "f" -> 12 [] c = "n" -> 10 [] c = "r" -> 13 [] c = "t" -> 9
      [] OTHER -> None

HexDigits == Digits \cup {"a", "b", "c", "d", "e", "f", "A", "B", "C", "D", "E", "F"}
HexVal(c) ==
    CASE c \in Digits -> DigitVal(c)
      [] c \in {"a", "A"} -> 10 [] c \in {"b", "B"} -> 11 [] c \in {"c", "C"} -> 12
      [] c \in {"d", "D"} -> 13 [] c \in {"e", "E"} -> 14 [] c \in {"f", "F"} -> 15

RECURSIVE HexValue(_, _, _)
HexValue(s, i, acc) ==
    IF i > Len(s) THEN acc ELSE HexValue(s, i + 1, acc * 16 + HexVal(s[i]))

\* s.strip() as int() applies it: the blanks at both ends removed
RECURSIVE StripBlanks(_)
StripBlanks(s) ==
    IF s # <<>> /\ s[1] \in WHITESPACE THEN StripBlanks(Tail(s))
    ELSE IF s # <<>> /\ s[Len(s)] \in WHITESPACE THEN StripBlanks(SubSeq(s, 1, Len(s) - 1))
    ELSE s

\* int(s, 16) on the bytes the model's sources are made of: blanks around, an
\* optional sign, then hexadecimal digits; None stands for ValueError
Int16(s) ==
    With(StripBlanks(s), LAMBDA t :
        With(t # <<>> /\ t[1] \in {"+", "-"}, LAMBDA signed :
        With(IF signed THEN Tail(t) ELSE t, LAMBDA d :
    IF d = <<>> \/ \E i \in 1..Len(d) : d[i] \notin HexDigits THEN [err |-> "ValueError", n |-> 0]
       ELSE [err |-> "", n |-> (IF signed /\ t[1] = "-" THEN 0 - 1 ELSE 1) * HexValue(d, 1, 0)])))

\* the slice string[i:j] of Python, 0-based, clipped to the string
Slice(s, i, j) == SubSeq(s, Max(i, 0) + 1, Min(j, Len(s)))

\* Node.parse_string of lazyjson on the measured literal (quotes included);
\* prev is set to backslash + 2 after every escape, \u included
RECURSIVE LUnescapeLoop(_, _, _)
LUnescapeLoop(string, prev, parts) ==
    With(Find(string, "\\", prev), LAMBDA backslash :
    IF backslash = 0 - 1
    THEN [err |-> "", text |-> parts \o OrdAll(Slice(string, prev, Len(string) - 1))]
    ELSE
        With(parts \o OrdAll(Slice(string, prev, backslash)), LAMBDA before :
            With(At(string, backslash + 1), LAMBDA next_char :
            With(EscapeMap(next_char), LAMBDA escaped :
            With(Int16(Slice(string, backslash + 2, backslash + 6)), LAMBDA codepoint :
        IF escaped # None
        THEN LUnescapeLoop(string, backslash + 2, Append(before, escaped))
        ELSE IF next_char = "u" THEN
            \* int() raises ValueError, chr() of a negative number as well
            IF codepoint.err # "" \/ codepoint.n < 0 THEN [err |-> "ValueError", text |-> <<>>]
            ELSE LUnescapeLoop(string, backslash + 2, Append(before, codepoint.n))
        ELSE [err |-> "ValueError", text |-> <<>>])))))

LUnescape(string) == LUnescapeLoop(string, 1, <<>>)

\* unescape_string_literal of sleepyjson/parser.py
RECURSIVE SUnescapeLoop(_, _, _)
SUnescapeLoop(literal, prev, parts) ==
    With(Find(literal, "\\", prev), LAMBDA backslash :
    IF backslash = 0 - 1
    THEN [err |-> "", text |-> parts \o OrdAll(Slice(literal, prev, Len(literal) - 1))]
    ELSE
        With(parts \o OrdAll(Slice(literal, prev, backslash)), LAMBDA before :
            With(At(literal, backslash + 1), LAMBDA next_char :
            With(EscapeMap(next_char), LAMBDA escaped :
            With(Slice(literal, backslash + 2, backslash + 6), LAMBDA codepoint :
        \* literal[backslash + 1] past the end is an IndexError
        IF next_char = "" THEN [err |-> "IndexError", text |-> <<>>]
        ELSE IF escaped # None
        THEN SUnescapeLoop(literal, backslash + 2, Append(before, escaped))
        ELSE IF next_char = "u" THEN
            IF Len(codepoint) # 4 \/ \E i \in 1..Len(codepoint) : codepoint[i] \notin HexDigits
            THEN [err |-> "ValueError", text |-> <<>>]
            ELSE SUnescapeLoop(literal, backslash + 6, Append(before, HexValue(codepoint, 1, 0)))
        ELSE [err |-> "ValueError", text |-> <<>>])))))

unescape_string_literal(literal) == SUnescapeLoop(literal, 1, <<>>)

(***************************************************************************)
(* lazyjson/node.py: the caching Node.                                     *)
(*                                                                         *)
(* A Node object is identified by its start offset.  The state threaded    *)
(* through the operations is st = [nodes, tell]: nodes[p] is the cache of  *)
(* the container Node at offset p, tell is the cursor of the shared file.  *)
(*   children  array: the children's offsets; object: the values' offsets, *)
(*             aligned with keys                                           *)
(*   keys      object: the keys of the dict children, in insertion order   *)
(*   last_key  object: the key inserted last, NoKey for None               *)
(*   size, end None until the closing delimiter is seen                    *)
(* Every operation returns the state it leaves behind, also when it        *)
(* raises: err is "" or the name of the exception.                         *)
(***************************************************************************)
NoKey == <<None>>
FreshNode == [children |-> <<>>, keys |-> <<>>, last_key |-> NoKey, size |-> None, end |-> None]
EmptyNodes(f) == [p \in 0..Len(f.data) |-> FreshNode]

\* the index of key in the sequence keys, 0 when absent
RECURSIVE IndexOf(_, _, _)
IndexOf(keys, key, i) ==
    IF i > Len(keys) THEN 0 ELSE IF keys[i] = key THEN i ELSE IndexOf(keys, key, i + 1)

KeyIn(node, key) == IndexOf(node.keys, key, 1) # 0

\* Node.__init__: the checks of the file, skip_to_start, get_type and the
\* empty cache of a container
LNewNode(f, st, pos) ==
    With(LSkipSkippable(f, pos), LAMBDA p :
        With(LGetType(f, p), LAMBDA t :
    IF ~f.seekable \/ ~f.binary
    THEN [st |-> st, err |-> "ValueError", pos |-> None, type |-> ""]
    ELSE IF t.err # ""
    THEN [st |-> [st EXCEPT !.tell = p], err |-> t.err, pos |-> None, type |-> ""]
    ELSE [st |-> [nodes |-> IF t.type \in {"ARRAY", "OBJECT"}
                            THEN [st.nodes EXCEPT ![p] = FreshNode] ELSE st.nodes,
                  tell |-> p],
          err |-> "", pos |-> p, type |-> t.type]))

LTypeAt(f, p) == LGetType(f, p).type

RECURSIVE LEndPosition(_, _, _)
RECURSIVE LSeekNextChild(_, _, _, _)
RECURSIVE LReadNextArrayChild(_, _, _, _)
RECURSIVE LReadArrayChildrenUpTo(_, _, _, _)
RECURSIVE LReadNextObjectChild(_, _, _, _)
RECURSIVE LReadObjectChildrenUpTo(_, _, _, _)

\* Node.end_position: pos + compute_value_length()
LEndPosition(f, st, p) ==
    With(LTypeAt(f, p), LAMBDA type :
    CASE type \in {"TRUE", "NULL"} -> [st |-> st, err |-> "", n |-> p + 4]
      [] type = "FALSE" -> [st |-> st, err |-> "", n |-> p + 5]
      [] type = "STRING" ->
            With(LMeasureString(f, p), LAMBDA r :
            [st |-> [st EXCEPT !.tell = r.tell], err |-> r.err, n |-> p + r.n])
      [] type = "NUMBER" ->
            With(LMeasureNumber(f, p), LAMBDA r :
            [st |-> [st EXCEPT !.tell = r.tell], err |-> r.err, n |-> p + r.n])
      [] type = "ARRAY" ->
            With(LReadArrayChildrenUpTo(f, st, p, None), LAMBDA r :
            [st |-> r.st, err |-> r.err, n |-> p + (r.st.nodes[p].end - p)])
      [] type = "OBJECT" ->
            With(LReadObjectChildrenUpTo(f, st, p, NoKey), LAMBDA r :
            [st |-> r.st, err |-> r.err, n |-> p + (r.st.nodes[p].end - p)]))

\* Node.seek_next_child looking for the comma from the cursor, without
\* file.seek(child.end_position())
LSeekNextChildFromCursor(f, st, p, expecting_next) ==
    With(st.nodes[p], LAMBDA node :
    IF Len(node.children) = 0
    THEN [st |-> [st EXCEPT !.tell = LSkipSkippable(f, p + 1)], err |-> "", must_end |-> FALSE]
    ELSE
        With(IF LTypeAt(f, p) = "ARRAY"
                     THEN node.children[Len(node.children)]
                     ELSE node.children[IndexOf(node.keys, node.last_key, 1)], LAMBDA child :
            With(LEndPosition(f, st, child), LAMBDA e :
            With(LSkipComma(f, e.st.tell), LAMBDA comma :
            With([e.st EXCEPT !.tell = comma.pos], LAMBDA st2 :
        IF e.err # "" THEN [st |-> e.st, err |-> e.err, must_end |-> FALSE]
        ELSE IF ~comma.found
        THEN IF expecting_next
             THEN [st |-> st2,
                   err |-> IF LTypeAt(f, p) = "ARRAY" THEN "IndexError" ELSE "KeyError",
                   must_end |-> FALSE]
             ELSE [st |-> st2, err |-> "", must_end |-> TRUE]
        ELSE [st |-> st2, err |-> "", must_end |-> FALSE])))))

\* Node.seek_next_child: must_end is its result
LSeekNextChild(f, st, p, expecting_next) ==
    With(st.nodes[p], LAMBDA node :
    IF Len(node.children) = 0
    THEN [st |-> [st EXCEPT !.tell = LSkipSkippable(f, p + 1)], err |-> "", must_end |-> FALSE]
    ELSE
        With(IF LTypeAt(f, p) = "ARRAY"
                     THEN node.children[Len(node.children)]
                     ELSE node.children[IndexOf(node.keys, node.last_key, 1)], LAMBDA child :
            With(LEndPosition(f, st, child), LAMBDA e :
            With(LSkipComma(f, e.n), LAMBDA comma :
            With([e.st EXCEPT !.tell = comma.pos], LAMBDA st2 :
        IF e.err # "" THEN [st |-> e.st, err |-> e.err, must_end |-> FALSE]
        ELSE IF ~comma.found
        THEN IF expecting_next
             THEN [st |-> st2,
                   err |-> IF LTypeAt(f, p) = "ARRAY" THEN "IndexError" ELSE "KeyError",
                   must_end |-> FALSE]
             ELSE [st |-> st2, err |-> "", must_end |-> TRUE]
        ELSE [st |-> st2, err |-> "", must_end |-> FALSE])))))

\* the assignment self.size = len(self.children) without that of self.end
LCloseSizeOnly(st, p) ==
    [st EXCEPT !.nodes[p].size = Len(st.nodes[p].children)]

\* the assignments self.size = len(self.children); self.end = tell + 1
LClose(st, p) ==
    [st EXCEPT !.nodes[p].size = Len(st.nodes[p].children), !.nodes[p].end = st.tell + 1]

\* Node.read_next_array_child accepting the closing bracket only where no comma
\* was skipped before it
LReadNextArrayChildStrict(f, st, p, expecting_next) ==
    IF st.nodes[p].size # None
    THEN [st |-> st, err |-> IF expecting_next THEN "IndexError" ELSE "", child |-> None]
    ELSE
        With(LSeekNextChild(f, st, p, expecting_next), LAMBDA sk :
            With(ByteAt(f, sk.st.tell), LAMBDA c :
            With(LNewNode(f, sk.st, sk.st.tell), LAMBDA nn :
        IF sk.err # "" THEN [st |-> sk.st, err |-> sk.err, child |-> None]
        ELSE IF sk.must_end /\ c # "]"
        THEN [st |-> sk.st, err |-> "ValueError", child |-> None]
        ELSE IF c = "]" /\ ~sk.must_end /\ st.nodes[p].children # <<>>
        THEN [st |-> sk.st, err |-> "ValueError", child |-> None]
        ELSE IF c = "]"
        THEN [st |-> LClose(sk.st, p),
              err |-> IF expecting_next THEN "IndexError" ELSE "", child |-> None]
        ELSE IF nn.err # "" THEN [st |-> nn.st, err |-> nn.err, child |-> None]
        ELSE [st |-> [nn.st EXCEPT !.nodes[p].children = Append(@, nn.pos)],
              err |-> "", child |-> nn.pos])))

\* Node.read_next_array_child taking the container for finished when what
\* follows the last child is neither a comma nor the closing bracket
LReadNextArrayChildClosing(f, st, p, expecting_next) ==
    IF st.nodes[p].size # None
    THEN [st |-> st, err |-> IF expecting_next THEN "IndexError" ELSE "", child |-> None]
    ELSE
        With(LSeekNextChild(f, st, p, expecting_next), LAMBDA sk :
            With(ByteAt(f, sk.st.tell), LAMBDA c :
            With(LNewNode(f, sk.st, sk.st.tell), LAMBDA nn :
        IF sk.err # "" THEN [st |-> sk.st, err |-> sk.err, child |-> None]
        ELSE IF sk.must_end /\ c # "]"
        THEN [st |-> LClose(sk.st, p), err |-> "ValueError", child |-> None]
        ELSE IF c = "]"
        THEN [st |-> LClose(sk.st, p),
              err |-> IF expecting_next THEN "IndexError" ELSE "", child |-> None]
        ELSE IF nn.err # "" THEN [st |-> nn.st, err |-> nn.err, child |-> None]
        ELSE [st |-> [nn.st EXCEPT !.nodes[p].children = Append(@, nn.pos)],
              err |-> "", child |-> nn.pos])))

\* Node.read_next_array_child: child is the new child's offset, None for None
LReadNextArrayChild(f, st, p, expecting_next) ==
    IF st.nodes[p].size # None
    THEN [st |-> st, err |-> IF expecting_next THEN "IndexError" ELSE "", child |-> None]
    ELSE
        With(LSeekNextChild(f, st, p, expecting_next), LAMBDA sk :
            With(ByteAt(f, sk.st.tell), LAMBDA c :
            With(LNewNode(f, sk.st, sk.st.tell), LAMBDA nn :
        IF sk.err # "" THEN [st |-> sk.st, err |-> sk.err, child |-> None]
        ELSE IF sk.must_end /\ c # "]"
        THEN [st |-> sk.st, err |-> "ValueError", child |-> None]
        ELSE IF c = "]"
        THEN [st |-> LClose(sk.st, p),
              err |-> IF expecting_next THEN "IndexError" ELSE "", child |-> None]
        ELSE IF nn.err # "" THEN [st |-> nn.st, err |-> nn.err, child |-> None]
        ELSE [st |-> [nn.st EXCEPT !.nodes[p].children = Append(@, nn.pos)],
              err |-> "", child |-> nn.pos])))

\* Node.read_array_children_up_to(amount), amount None for all
LReadArrayChildrenUpTo(f, st, p, amount) ==
    IF amount # None /\ amount <= Len(st.nodes[p].children)
    THEN [st |-> st, err |-> ""]
    ELSE
        With(LReadNextArrayChild(f, st, p, amount # None), LAMBDA r :
        IF r.err # "" THEN [st |-> r.st, err |-> r.err]
        ELSE IF amount = None /\ r.child = None THEN [st |-> r.st, err |-> ""]
        ELSE IF Len(r.st.nodes[p].children) = amount THEN [st |-> r.st, err |-> ""]
        ELSE LReadArrayChildrenUpTo(f, r.st, p, amount))

\* self.children[this_key] = child; self.last_key = this_key
LDictSet(node, key, child) ==
    With(IndexOf(node.keys, key, 1), LAMBDA i :
    IF i = 0
    THEN [node EXCEPT !.keys = Append(@, key), !.children = Append(@, child), !.last_key = key]
    ELSE [node EXCEPT !.children[i] = child, !.last_key = key])

\* Node.read_next_object_child
LReadNextObjectChild(f, st, p, expecting_next) ==
    IF st.nodes[p].size # None
    THEN [st |-> st, err |-> IF expecting_next THEN "KeyError" ELSE "", child |-> None]
    ELSE
        With(LSeekNextChild(f, st, p, expecting_next), LAMBDA sk :
            With(ByteAt(f, sk.st.tell), LAMBDA c :
            With(LNewNode(f, sk.st, sk.st.tell), LAMBDA this_key :
            With(LMeasureString(f, this_key.pos), LAMBDA klen :
            With(this_key.pos + klen.n, LAMBDA pos :
            With(LUnescape(FRead(f, this_key.pos, klen.n)), LAMBDA ktext :
            With(LSkipColon(f, pos), LAMBDA colon :
            With([this_key.st EXCEPT !.tell = colon.pos], LAMBDA st3 :
            With(LNewNode(f, st3, colon.pos), LAMBDA nn :
        IF sk.err # "" THEN [st |-> sk.st, err |-> sk.err, child |-> None]
        ELSE IF c = "}"
        THEN [st |-> LClose(sk.st, p),
              err |-> IF expecting_next THEN "KeyError" ELSE "", child |-> None]
        ELSE IF this_key.err # "" THEN [st |-> this_key.st, err |-> this_key.err, child |-> None]
        ELSE IF this_key.type # "STRING"
        THEN [st |-> this_key.st, err |-> "ValueError", child |-> None]
        ELSE IF klen.err # ""
        THEN [st |-> [this_key.st EXCEPT !.tell = klen.tell], err |-> klen.err, child |-> None]
        ELSE IF ktext.err # ""
        THEN [st |-> [this_key.st EXCEPT !.tell = this_key.pos], err |-> ktext.err, child |-> None]
        ELSE IF ~colon.found THEN [st |-> st3, err |-> "ValueError", child |-> None]
        ELSE IF nn.err # "" THEN [st |-> nn.st, err |-> nn.err, child |-> None]
        ELSE [st |-> [nn.st EXCEPT !.nodes[p] = LDictSet(@, ktext.text, nn.pos)],
              err |-> "", child |-> nn.pos])))))))))

\* Node.read_object_children_up_to(key), key NoKey for None
LReadObjectChildrenUpTo(f, st, p, key) ==
    IF KeyIn(st.nodes[p], key)
    THEN [st |-> st, err |-> ""]
    ELSE
        With(LReadNextObjectChild(f, st, p, key # NoKey), LAMBDA r :
        IF r.err # "" THEN [st |-> r.st, err |-> r.err]
        ELSE IF key = NoKey /\ r.child = None THEN [st |-> r.st, err |-> ""]
        ELSE IF KeyIn(r.st.nodes[p], key) THEN [st |-> r.st, err |-> ""]
        ELSE LReadObjectChildrenUpTo(f, r.st, p, key))

\* Python's list[key] with a negative key counted from the end; 0 for IndexError
ListIndex(len, key) ==
    IF key >= 0 /\ key < len THEN key + 1
    ELSE IF key < 0 /\ key >= 0 - len THEN len + key + 1
    ELSE 0

\* Node.__getitem__ with an integer key: child is the offset of the child
LGetIndex(f, st, p, key) ==
    With(LTypeAt(f, p), LAMBDA type :
        With(LReadArrayChildrenUpTo(f, st, p, IF key < 0 THEN None ELSE key + 1), LAMBDA r :
        With(ListIndex(Len(r.st.nodes[p].children), key), LAMBDA i :
    IF type # "ARRAY" THEN [st |-> st, err |-> "ValueError", child |-> None]
    ELSE IF r.err # "" THEN [st |-> r.st, err |-> r.err, child |-> None]
    ELSE IF i = 0 THEN [st |-> r.st, err |-> "IndexError", child |-> None]
    ELSE [st |-> r.st, err |-> "", child |-> r.st.nodes[p].children[i]])))

\* Node.__getitem__ with a string key
LGetKey(f, st, p, key) ==
    With(LTypeAt(f, p), LAMBDA type :
        With(LReadObjectChildrenUpTo(f, st, p, key), LAMBDA r :
        With(IndexOf(r.st.nodes[p].keys, key, 1), LAMBDA i :
    IF type # "OBJECT" THEN [st |-> st, err |-> "ValueError", child |-> None]
    ELSE IF r.err # "" THEN [st |-> r.st, err |-> r.err, child |-> None]
    ELSE IF i = 0 THEN [st |-> r.st, err |-> "KeyError", child |-> None]
    ELSE [st |-> r.st, err |-> "", child |-> r.st.nodes[p].children[i]])))

\* Node.__len__
LLen(f, st, p) ==
    With(LTypeAt(f, p), LAMBDA type :
        With(IF type = "ARRAY" THEN LReadArrayChildrenUpTo(f, st, p, None)
             ELSE LReadObjectChildrenUpTo(f, st, p, NoKey), LAMBDA r :
    IF type \notin {"ARRAY", "OBJECT"} THEN [st |-> st, err |-> "ValueError", n |-> 0]
    ELSE IF r.err # "" THEN [st |-> r.st, err |-> r.err, n |-> 0]
    ELSE [st |-> r.st, err |-> "", n |-> Len(r.st.nodes[p].children)]))

\* Node.parse_string
LParseString(f, st, p) ==
    With(LMeasureString(f, p), LAMBDA len :
        With(LUnescape(FRead(f, p, len.n)), LAMBDA t :
    IF len.err # "" THEN [st |-> [st EXCEPT !.tell = len.tell], err |-> len.err, v |-> VNull]
    ELSE [st |-> [st EXCEPT !.tell = p], err |-> t.err, v |-> VStr(t.text)]))

\* Node.parse_number
LParseNumber(f, st, p) ==
    With(LMeasureNumber(f, p), LAMBDA len :
    IF len.err # "" THEN [st |-> [st EXCEPT !.tell = len.tell], err |-> len.err, v |-> VNull]
    ELSE [st |-> [st EXCEPT !.tell = p], err |-> "", v |-> LParseNumberLiteral(FRead(f, p, len.n))])

RECURSIVE LValue(_, _, _)
RECURSIVE LValuesOf(_, _, _, _, _)

\* [child.value() for child in children], from the i-th child on
LValuesOf(f, st, children, i, acc) ==
    IF i > Len(children) THEN [st |-> st, err |-> "", vs |-> acc]
    ELSE
        With(LValue(f, st, children[i]), LAMBDA r :
        IF r.err # "" THEN [st |-> r.st, err |-> r.err, vs |-> acc]
        ELSE LValuesOf(f, r.st, children, i + 1, Append(acc, r.v)))

\* Node.value
LValue(f, st, p) ==
    With(LTypeAt(f, p), LAMBDA type :
    CASE type = "TRUE" -> [st |-> st, err |-> "", v |-> VTrue]
      [] type = "FALSE" -> [st |-> st, err |-> "", v |-> VFalse]
      [] type = "NULL" -> [st |-> st, err |-> "", v |-> VNull]
      [] type = "STRING" -> LParseString(f, st, p)
      [] type = "NUMBER" -> LParseNumber(f, st, p)
      [] type = "ARRAY" ->
            With(LReadArrayChildrenUpTo(f, st, p, None), LAMBDA r :
                With(LValuesOf(f, r.st, r.st.nodes[p].children, 1, <<>>), LAMBDA vs :
            IF r.err # "" THEN [st |-> r.st, err |-> r.err, v |-> VNull]
            ELSE IF vs.err # "" THEN [st |-> vs.st, err |-> vs.err, v |-> VNull]
            ELSE [st |-> vs.st, err |-> "", v |-> VList(vs.vs)]))
      [] type = "OBJECT" ->
            With(LReadObjectChildrenUpTo(f, st, p, NoKey), LAMBDA r :
                With(LValuesOf(f, r.st, r.st.nodes[p].children, 1, <<>>), LAMBDA vs :
            IF r.err # "" THEN [st |-> r.st, err |-> r.err, v |-> VNull]
            ELSE IF vs.err # "" THEN [st |-> vs.st, err |-> vs.err, v |-> VNull]
            ELSE [st |-> vs.st, err |-> "", v |-> VDict(r.st.nodes[p].keys, vs.vs)])))

(***************************************************************************)
(* Node.__iter__ of lazyjson is a generator.  An iterator it is            *)
(*   phase  "new"      created, the body has not run                       *)
(*          "cached"   inside  yield from self.children                    *)
(*          "reading"  inside the loop of read_next_..._child(False)       *)
(*          "done"     returned or raised                                  *)
(*   idx    the position of the list or dict iterator of self.children     *)
(*   used   the size of the dict when its iterator was created: a dict     *)
(*          iterator raises RuntimeError once the dict has another size    *)
(* A step is one next(it): out is "yield", "stop" (StopIteration) or       *)
(* "error"; a yielded array child is child, a yielded key is key.          *)
(***************************************************************************)
NewIter == [phase |-> "new", idx |-> 0, used |-> 0]
DoneIter == [phase |-> "done", idx |-> 0, used |-> 0]

LIterOut(st, it, out, err, child, key) ==
    [st |-> st, it |-> it, out |-> out, err |-> err, child |-> child, key |-> key]

\* the loop after yield from: one read_next_..._child(False)
LIterRead(f, st, p) ==
    With(LTypeAt(f, p), LAMBDA type :
        With(IF type = "ARRAY" THEN LReadNextArrayChild(f, st, p, FALSE)
             ELSE LReadNextObjectChild(f, st, p, FALSE), LAMBDA r :
        With([phase |-> "reading", idx |-> 0, used |-> 0], LAMBDA reading :
    IF r.err # "" THEN LIterOut(r.st, DoneIter, "error", r.err, None, NoKey)
    ELSE IF r.child = None THEN LIterOut(r.st, DoneIter, "stop", "", None, NoKey)
    ELSE IF type = "ARRAY" THEN LIterOut(r.st, reading, "yield", "", r.child, NoKey)
    ELSE LIterOut(r.st, reading, "yield", "", None, r.st.nodes[p].last_key))))

LIterStep(f, st, p, it0) ==
    With(LTypeAt(f, p), LAMBDA type :
        With(st.nodes[p], LAMBDA node :
        \* the first next() runs the body up to the first yield
        With(IF it0.phase = "new"
              THEN [phase |-> "cached", idx |-> 0, used |-> Len(node.keys)]
              ELSE it0, LAMBDA it :
    IF it0.phase = "done" THEN LIterOut(st, DoneIter, "stop", "", None, NoKey)
    ELSE IF type \notin {"ARRAY", "OBJECT"}
    THEN LIterOut(st, DoneIter, "error", "ValueError", None, NoKey)
    ELSE IF it.phase = "cached" THEN
        IF type = "OBJECT" /\ it.used # Len(node.keys)
        THEN LIterOut(st, DoneIter, "error", "RuntimeError", None, NoKey)
        ELSE IF it.idx < Len(node.children)
        THEN LIterOut(st, [it EXCEPT !.idx = @ + 1], "yield", "",
                      IF type = "ARRAY" THEN node.children[it.idx + 1] ELSE None,
                      IF type = "ARRAY" THEN NoKey ELSE node.keys[it.idx + 1])
        ELSE LIterRead(f, st, p)
    ELSE LIterRead(f, st, p))))

\* item in node, which Python answers with iter(node) where the class has no
\* __contains__: item == each element in turn; a Node equals no other object, a
\* key is a str
RECURSIVE LAny(_, _, _, _, _)
LAny(f, st, p, it, item) ==
    With(LIterStep(f, st, p, it), LAMBDA r :
    IF r.out = "error" THEN [st |-> r.st, err |-> r.err, found |-> FALSE]
    ELSE IF r.out = "stop" THEN [st |-> r.st, err |-> "", found |-> FALSE]
    ELSE IF LTypeAt(f, p) = "OBJECT" /\ item = VStr(r.key)
    THEN [st |-> r.st, err |-> "", found |-> TRUE]
    ELSE LAny(f, r.st, p, r.it, item))
LContains(f, st, p, item) == LAny(f, st, p, NewIter, item)

(***************************************************************************)
(* sleepyjson/parser.py: the Parser.                                       *)
(***************************************************************************)
\* Parser.skip_skippable: a comment ends at a line feed only
RECURSIVE SSkipLoop(_, _, _)
SSkipLoop(f, pos, in_comment) ==
    With(ByteAt(f, pos), LAMBDA c :
    IF c = "" THEN pos
    ELSE IF in_comment THEN
        IF c = "\n" THEN SSkipLoop(f, pos + 1, FALSE) ELSE SSkipLoop(f, pos + 1, TRUE)
    ELSE IF c \in WHITESPACE THEN SSkipLoop(f, pos + 1, FALSE)
    ELSE IF c = "/" THEN
        IF ByteAt(f, pos + 1) # "/"
        THEN SSkipLoop(f, pos + 1, FALSE)
        ELSE SSkipLoop(f, pos + 2, TRUE)
    ELSE pos)

SSkipSkippable(f, pos) == SSkipLoop(f, pos, FALSE)

\* Parser.skip_comma / Parser.skip_colon
SSkipDelim(f, pos, delim) ==
    With(SSkipSkippable(f, pos), LAMBDA p :
    IF ByteAt(f, p) = delim
    THEN [found |-> TRUE, pos |-> SSkipSkippable(f, p + 1)]
    ELSE [found |-> FALSE, pos |-> p])

SSkipComma(f, pos) == SSkipDelim(f, pos, ",")
SSkipColon(f, pos) == SSkipDelim(f, pos, ":")

\* Parser.read(pos, n): ValueError when nothing is read
SRead(f, pos, n) ==
    With(FRead(f, pos, n), LAMBDA buf :
    [err |-> IF buf = <<>> THEN "ValueError" ELSE "", buf |-> buf])

\* buf[i] of Python for i >= -1: index -1 is the last element
PyAt(buf, i) == IF i < 0 THEN buf[Len(buf) + i + 1] ELSE buf[i + 1]

\* Parser.measure_string: the inner loop that looks for an unescaped quote
RECURSIVE SFindQuote(_, _, _)
SFindQuote(buf, from, prev_was_backslash) ==
    With(Find(buf, "\"", from), LAMBDA q :
    IF q = 0 - 1 THEN q
    ELSE IF (q = 0 /\ prev_was_backslash) \/ PyAt(buf, q - 1) = "\\"
    THEN SFindQuote(buf, q + 1, prev_was_backslash)
    ELSE q)

\* Parser.measure_string(pos), reading chunk characters at a time
RECURSIVE SMeasureStringLoop(_, _, _, _, _)
SMeasureStringLoop(f, cur, result, prev_was_backslash, chunk) ==
    With(FRead(f, cur, chunk), LAMBDA buf :
        With(SFindQuote(buf, 0, prev_was_backslash), LAMBDA q :
    IF buf = <<>> THEN [err |-> "ValueError", n |-> 0]
    ELSE IF q = 0 - 1 THEN
        IF Contains(buf, "\n") THEN [err |-> "ValueError", n |-> 0]
        ELSE SMeasureStringLoop(f, cur + Len(buf), result + Len(buf),
                                buf[Len(buf)] = "\\", chunk)
    ELSE
        IF Contains(SubSeq(buf, 1, q), "\n") THEN [err |-> "ValueError", n |-> 0]
        ELSE [err |-> "", n |-> result + q + 1]))

SMeasureStringChunked(f, pos, chunk) == SMeasureStringLoop(f, pos + 1, 1, FALSE, chunk)
SMeasureString(f, pos) == SMeasureStringChunked(f, pos, BUF_LENGTH)

\* Parser.measure_number(pos): the run of number characters, chunk by chunk
RECURSIVE SNumberRun(_, _, _)
SNumberRun(f, cur, chunk) ==
    With(FRead(f, cur, chunk), LAMBDA buf :
        With({i \in 1..Len(buf) : buf[i] \notin NumberChars}, LAMBDA bad :
        With(CHOOSE i \in bad : \A k \in bad : i <= k, LAMBDA first :
    IF buf = <<>> THEN <<>>
    ELSE IF bad = {} THEN buf \o SNumberRun(f, cur + Len(buf), chunk)
    ELSE SubSeq(buf, 1, first - 1))))

SMeasureNumberChunked(f, pos, chunk) == MeasureAccumulated(SNumberRun(f, pos, chunk))
SMeasureNumber(f, pos) == SMeasureNumberChunked(f, pos, BUF_LENGTH)

(***************************************************************************)
(* sleepyjson/node.py: the Node built on generators.                       *)
(*                                                                         *)
(* A Node keeps pos, type and end; its children are new Node objects each  *)
(* time they are produced.  The operations take the end the node has and   *)
(* return the end it is left with (None until it is set).  A child Node    *)
(* is taken as it is when the generator made it, with end None.            *)
(***************************************************************************)
\* Node.__init__: Parser(file), skip_to_start, get_type
SNewNode(f, pos) ==
    With(SSkipSkippable(f, pos), LAMBDA p :
        With(GetTypeOf(FRead(f, p, MAX_NEEDED_CHARS)), LAMBDA t :
    IF ~f.seekable THEN [err |-> "ValueError", pos |-> None, type |-> ""]
    ELSE IF t.err # "" THEN [err |-> t.err, pos |-> None, type |-> ""]
    ELSE [err |-> "", pos |-> p, type |-> t.type]))

STypeAt(f, p) == GetTypeOf(FRead(f, p, MAX_NEEDED_CHARS)).type

\* a generator of array_iter or items:
\*   phase  "new", "yielded" (suspended at its yield) or "done"
\*   child  the offset of current_child while suspended
NewGen == [phase |-> "new", child |-> None]
DoneGen == [phase |-> "done", child |-> None]

SGenOut(gen, out, err, child, key, end) ==
    [gen |-> gen, out |-> out, err |-> err, child |-> child, key |-> key, end |-> end]

RECURSIVE SEndPosition(_, _, _)
RECURSIVE SIterStep(_, _, _, _)
RECURSIVE SRunIter(_, _, _, _, _)

\* Parser.seek_next_array_child(pos) and the Node made of its result
SArrayScan(f, pos, end) ==
    With(ByteAt(f, pos), LAMBDA c :
        With(SNewNode(f, pos), LAMBDA nn :
    IF c = "" THEN SGenOut(DoneGen, "error", "ValueError", None, NoKey, end)
    ELSE IF c = "]" THEN SGenOut(DoneGen, "stop", "", None, NoKey, pos + 1)
    ELSE IF nn.err # "" THEN SGenOut(DoneGen, "error", nn.err, None, NoKey, end)
    ELSE SGenOut([phase |-> "yielded", child |-> nn.pos], "yield", "", nn.pos, NoKey, end)))

\* Parser.seek_next_object_child(pos) and the Node made of its result
SObjectScan(f, pos, end) ==
    With(ByteAt(f, pos), LAMBDA c :
        With(SNewNode(f, pos), LAMBDA key :
        With(SMeasureString(f, key.pos), LAMBDA klen :
        With(SSkipColon(f, key.pos + klen.n), LAMBDA colon :
        With(unescape_string_literal(FRead(f, key.pos, klen.n)), LAMBDA ktext :
        With(SNewNode(f, colon.pos), LAMBDA nn :
    IF c = "" THEN SGenOut(DoneGen, "error", "ValueError", None, NoKey, end)
    ELSE IF c = "}" THEN SGenOut(DoneGen, "stop", "", None, NoKey, pos + 1)
    ELSE IF key.err # "" THEN SGenOut(DoneGen, "error", key.err, None, NoKey, end)
    ELSE IF key.type # "STRING" THEN SGenOut(DoneGen, "error", "ValueError", None, NoKey, end)
    ELSE IF klen.err # "" THEN SGenOut(DoneGen, "error", klen.err, None, NoKey, end)
    ELSE IF ~colon.found THEN SGenOut(DoneGen, "error", "ValueError", None, NoKey, end)
    ELSE IF ktext.err # "" THEN SGenOut(DoneGen, "error", ktext.err, None, NoKey, end)
    ELSE IF nn.err # "" THEN SGenOut(DoneGen, "error", nn.err, None, NoKey, end)
    ELSE SGenOut([phase |-> "yielded", child |-> nn.pos], "yield", "", nn.pos, ktext.text, end)))))))

\* one next() of Node.array_iter (type ARRAY) or Node.items (type OBJECT) of the
\* node at p; __iter__ yields the children of the one and the keys of the other
SIterStep(f, p, gen, end) ==
    With(STypeAt(f, p), LAMBDA type :
        With(SEndPosition(f, gen.child, None), LAMBDA e :
        With(SSkipComma(f, e.n), LAMBDA comma :
    IF gen.phase = "done" THEN SGenOut(DoneGen, "stop", "", None, NoKey, end)
    ELSE IF type \notin {"ARRAY", "OBJECT"}
    THEN SGenOut(DoneGen, "error", "ValueError", None, NoKey, end)
    ELSE IF gen.phase = "new"
    THEN IF type = "ARRAY" THEN SArrayScan(f, p + 1, end) ELSE SObjectScan(f, p + 1, end)
    ELSE IF e.err # "" THEN SGenOut(DoneGen, "error", e.err, None, NoKey, end)
    \* file.seek(None)
    ELSE IF e.n = None THEN SGenOut(DoneGen, "error", "TypeError", None, NoKey, end)
    ELSE IF type = "ARRAY"
    THEN IF ~comma.found THEN SGenOut(DoneGen, "stop", "", None, NoKey, end)
         ELSE SArrayScan(f, comma.pos, end)
    ELSE SObjectScan(f, comma.pos, end))))

\* a generator run to its end: the children and keys it yields from gen on
SRunIter(f, p, gen, end, acc) ==
    With(SIterStep(f, p, gen, end), LAMBDA r :
    IF r.out = "yield"
    THEN SRunIter(f, p, r.gen, r.end,
                  [children |-> Append(acc.children, r.child), keys |-> Append(acc.keys, r.key)])
    ELSE [err |-> r.err, children |-> acc.children, keys |-> acc.keys, end |-> r.end])

NoItems == [children |-> <<>>, keys |-> <<>>]

\* Node.end_position: n is what it returns (None when end was never set)
SEndPosition(f, p, end) ==
    With(STypeAt(f, p), LAMBDA type :
    IF end # None THEN [err |-> "", n |-> end, end |-> end]
    ELSE CASE type \in {"TRUE", "NULL"} -> [err |-> "", n |-> p + 4, end |-> p + 4]
      [] type = "FALSE" -> [err |-> "", n |-> p + 5, end |-> p + 5]
      [] type = "STRING" ->
            With(SMeasureString(f, p), LAMBDA r :
            IF r.err # "" THEN [err |-> r.err, n |-> None, end |-> None]
            ELSE [err |-> "", n |-> p + r.n, end |-> p + r.n])
      [] type = "NUMBER" ->
            With(SMeasureNumber(f, p), LAMBDA r :
            IF r.err # "" THEN [err |-> r.err, n |-> None, end |-> None]
            ELSE [err |-> "", n |-> p + r.n, end |-> p + r.n])
      [] OTHER ->
            \* seek_to_end: for _ in self: pass
            With(SRunIter(f, p, NewGen, end, NoItems), LAMBDA r :
            [err |-> r.err, n |-> r.end, end |-> r.end]))

\* d[key] = v on a dict held as its keys and its values in insertion order
DictPut(d, key, v) ==
    With(IndexOf(d.keys, key, 1), LAMBDA i :
    IF i = 0 THEN [keys |-> Append(d.keys, key), items |-> Append(d.items, v)]
    ELSE [keys |-> d.keys, items |-> [d.items EXCEPT ![i] = v]])

RECURSIVE SValue(_, _, _)
RECURSIVE SValueItems(_, _, _, _, _)

\* the comprehensions of Node.value: child.value() of each child the generator
\* yields, taken before the generator is resumed
SValueItems(f, p, gen, end, acc) ==
    With(SIterStep(f, p, gen, end), LAMBDA r :
        With(SValue(f, r.child, None), LAMBDA v :
    IF r.out # "yield" THEN [err |-> r.err, acc |-> acc, end |-> r.end]
    ELSE IF v.err # "" THEN [err |-> v.err, acc |-> acc, end |-> r.end]
    ELSE SValueItems(f, p, r.gen, r.end,
                     IF STypeAt(f, p) = "ARRAY"
                     THEN [keys |-> <<>>, items |-> Append(acc.items, v.v)]
                     ELSE DictPut(acc, r.key, v.v))))

\* Node.value
SValue(f, p, end) ==
    With(STypeAt(f, p), LAMBDA type :
    CASE type = "TRUE" -> [err |-> "", v |-> VTrue, end |-> end]
      [] type = "FALSE" -> [err |-> "", v |-> VFalse, end |-> end]
      [] type = "NULL" -> [err |-> "", v |-> VNull, end |-> end]
      [] type = "STRING" ->
            With(SEndPosition(f, p, end), LAMBDA e :
                With(unescape_string_literal(FRead(f, p, e.n - p)), LAMBDA t :
            IF e.err # "" THEN [err |-> e.err, v |-> VNull, end |-> end]
            ELSE [err |-> t.err, v |-> VStr(t.text), end |-> e.end]))
      [] type = "NUMBER" ->
            With(SEndPosition(f, p, end), LAMBDA e :
            IF e.err # "" THEN [err |-> e.err, v |-> VNull, end |-> end]
            ELSE [err |-> "", v |-> SParseNumberLiteral(FRead(f, p, e.n - p)), end |-> e.end])
      [] OTHER ->
            With(SValueItems(f, p, NewGen, end, [keys |-> <<>>, items |-> <<>>]), LAMBDA r :
            IF r.err # "" THEN [err |-> r.err, v |-> VNull, end |-> r.end]
            ELSE [err |-> "", end |-> r.end,
                  v |-> IF type = "ARRAY" THEN VList(r.acc.items)
                        ELSE VDict(r.acc.keys, r.acc.items)]))

\* next(child for i, child in enumerate(self) if i == key): the generator is
\* stepped until it yields the child number key
RECURSIVE SNth(_, _, _, _, _)
SNth(f, p, gen, end, key) ==
    With(SIterStep(f, p, gen, end), LAMBDA r :
    IF r.out = "error" THEN [err |-> r.err, child |-> None, end |-> r.end]
    ELSE IF r.out = "stop" THEN [err |-> "IndexError", child |-> None, end |-> r.end]
    ELSE IF key = 0 THEN [err |-> "", child |-> r.child, end |-> r.end]
    ELSE SNth(f, p, r.gen, r.end, key - 1))

\* Node.__getitem__ with an integer key
SGetIndex(f, p, end, key) ==
    With(STypeAt(f, p), LAMBDA type :
        \* deque(self, -key): the whole iteration, the last -key children kept
        With(SRunIter(f, p, NewGen, end, NoItems), LAMBDA all :
        With(Len(all.children), LAMBDA n :
    IF type # "ARRAY" THEN [err |-> "ValueError", child |-> None, end |-> end]
    ELSE IF key >= 0 THEN SNth(f, p, NewGen, end, key)
    ELSE IF all.err # "" THEN [err |-> all.err, child |-> None, end |-> all.end]
    ELSE IF Min(n, 0 - key) < 0 - key THEN [err |-> "IndexError", child |-> None, end |-> all.end]
    ELSE [err |-> "", child |-> all.children[n + key + 1], end |-> all.end])))

\* next(child for child_key, child in self.items() if child_key == key)
RECURSIVE SFindKey(_, _, _, _, _)
SFindKey(f, p, gen, end, key) ==
    With(SIterStep(f, p, gen, end), LAMBDA r :
    IF r.out = "error" THEN [err |-> r.err, child |-> None, end |-> r.end]
    ELSE IF r.out = "stop" THEN [err |-> "KeyError", child |-> None, end |-> r.end]
    ELSE IF r.key = key THEN [err |-> "", child |-> r.child, end |-> r.end]
    ELSE SFindKey(f, p, r.gen, r.end, key))

\* Node.__getitem__ with a string key
SGetKey(f, p, end, key) ==
    IF STypeAt(f, p) # "OBJECT" THEN [err |-> "ValueError", child |-> None, end |-> end]
    ELSE SFindKey(f, p, NewGen, end, key)

\* Node.__len__: sum(1 for _ in self)
SLen(f, p, end) ==
    With(SRunIter(f, p, NewGen, end, NoItems), LAMBDA all :
    [err |-> all.err, n |-> Len(all.children), end |-> all.end])

\* object(): a value equal to nothing but itself
Sentinel == Val("object")

\* a bool taken as the int it is
PyNum(a) == IF a.kind = "true" THEN [Val("int") EXCEPT !.m = 1]
            ELSE IF a.kind = "false" THEN Val("int") ELSE a

\* a == b of Python on two values: an int equals the float of the same number and
\* True and False equal 1 and 0, a dict equals a dict of the same keys and values
\* in any order
RECURSIVE PyEq(_, _)
PyEq(a, b) ==
    CASE a.kind \in {"int", "float", "true", "false"} ->
            /\ b.kind \in {"int", "float", "true", "false"}
            /\ PyNum(a).m = PyNum(b).m /\ PyNum(a).e = PyNum(b).e
      [] a.kind = "list" ->
            /\ b.kind = "list"
            /\ Len(a.items) = Len(b.items)
            /\ \A i \in 1..Len(a.items) : PyEq(a.items[i], b.items[i])
      [] a.kind = "dict" ->
            /\ b.kind = "dict"
            /\ Len(a.keys) = Len(b.keys)
            /\ \A i \in 1..Len(a.keys) :
                  /\ IndexOf(b.keys, a.keys[i], 1) # 0
                  /\ PyEq(a.items[i], b.items[IndexOf(b.keys, a.keys[i], 1)])
      [] OTHER -> a = b

\* iter(x) of a Python value: the characters of a str, the elements of a list,
\* the keys of a dict; anything else raises TypeError
Iterable(x) == x.kind \in {"str", "list", "dict"}
PyIter(x) ==
    CASE x.kind = "str" -> [i \in 1..Len(x.text) |-> VStr(<<x.text[i]>>)]
      [] x.kind = "list" -> x.items
      [] x.kind = "dict" -> [i \in 1..Len(x.keys) |-> VStr(x.keys[i])]
      [] OTHER -> <<>>

\* other.get(key, sentinel) of a dict
DictGet(d, key) ==
    With(IndexOf(d.keys, key, 1), LAMBDA i : IF i = 0 THEN Sentinel ELSE d.items[i])

RECURSIVE SEquals(_, _, _, _)
RECURSIVE SEqualsZip(_, _, _, _, _, _)
RECURSIVE SEqualsItems(_, _, _, _, _)

\* all(left.equals(right) for left, right in zip(self, other)): rights is what
\* iter(other) yields, j the next of them
SEqualsZip(f, p, gen, end, rights, j) ==
    With(SIterStep(f, p, gen, end), LAMBDA r :
    IF r.out = "error" THEN [err |-> r.err, eq |-> FALSE, end |-> r.end]
    ELSE IF r.out = "stop" \/ j > Len(rights) THEN [err |-> "", eq |-> TRUE, end |-> r.end]
    ELSE With(SEquals(f, r.child, None, rights[j]), LAMBDA c :
         IF c.err # "" \/ ~c.eq THEN [err |-> c.err, eq |-> FALSE, end |-> r.end]
         ELSE SEqualsZip(f, p, r.gen, r.end, rights, j + 1)))

\* all(lvalue.equals(other.get(lkey, sentinel)) for lkey, lvalue in self.items())
SEqualsItems(f, p, gen, end, other) ==
    With(SIterStep(f, p, gen, end), LAMBDA r :
    IF r.out = "error" THEN [err |-> r.err, eq |-> FALSE, end |-> r.end]
    ELSE IF r.out = "stop" THEN [err |-> "", eq |-> TRUE, end |-> r.end]
    ELSE IF other.kind # "dict" THEN [err |-> "AttributeError", eq |-> FALSE, end |-> r.end]
    ELSE With(SEquals(f, r.child, None, DictGet(other, r.key)), LAMBDA c :
         IF c.err # "" \/ ~c.eq THEN [err |-> c.err, eq |-> FALSE, end |-> r.end]
         ELSE SEqualsItems(f, p, r.gen, r.end, other)))

\* Node.equals
SEquals(f, p, end, other) ==
    With(STypeAt(f, p), LAMBDA type :
    IF type = "ARRAY"
    THEN IF ~Iterable(other) THEN [err |-> "TypeError", eq |-> FALSE, end |-> end]
         ELSE SEqualsZip(f, p, NewGen, end, PyIter(other), 1)
    ELSE IF type = "OBJECT" THEN SEqualsItems(f, p, NewGen, end, other)
    ELSE With(SValue(f, p, end), LAMBDA v :
         IF v.err # "" THEN [err |-> v.err, eq |-> FALSE, end |-> end]
         ELSE [err |-> "", eq |-> PyEq(v.v, other), end |-> v.end]))

\* any(node.equals(item) for node in self), any(key == item for key in self)
RECURSIVE SAny(_, _, _, _, _)
SAny(f, p, gen, end, item) ==
    With(SIterStep(f, p, gen, end), LAMBDA r :
    IF r.out = "error" THEN [err |-> r.err, found |-> FALSE, end |-> r.end]
    ELSE IF r.out = "stop" THEN [err |-> "", found |-> FALSE, end |-> r.end]
    ELSE IF STypeAt(f, p) = "OBJECT"
    THEN IF item = VStr(r.key) THEN [err |-> "", found |-> TRUE, end |-> r.end]
         ELSE SAny(f, p, r.gen, r.end, item)
    ELSE With(SEquals(f, r.child, None, item), LAMBDA c :
         IF c.err # "" \/ c.eq THEN [err |-> c.err, found |-> c.err = "", end |-> r.end]
         ELSE SAny(f, p, r.gen, r.end, item)))

\* Node.__contains__
SContains(f, p, end, item) ==
    IF STypeAt(f, p) \in {"ARRAY", "OBJECT"} THEN SAny(f, p, NewGen, end, item)
    ELSE [err |-> "ValueError", found |-> FALSE, end |-> end]

(***************************************************************************)
(* lazyjson/reader.py: the Reader.                                         *)
(*                                                                         *)
(* The argument of Reader(files) is [single, files]: one file object, or   *)
(* a list of file objects.  A Reader is                                    *)
(*   files         the argument's files; self.files is an iterator over    *)
(*                 them, consumed is how many it has handed out            *)
(*   current_file  the index of self.current_file                          *)
(*   node_file     the index of self.node.file                             *)
(*   node          the start offset of self.node, st the cache of the      *)
(*                 Node objects below it and the cursor of the file        *)
(***************************************************************************)
FreshState(f) == [nodes |-> EmptyNodes(f), tell |-> 0]

\* file_type(files) == '' holds of a single text file only
RInit(arg) ==
    With(IF arg.single THEN FileType(arg.files[1]) ELSE "False", LAMBDA ft :
        With(arg.files[1], LAMBDA f :
        With(LNewNode(f, FreshState(f), 0), LAMBDA nn :
        With([files |-> arg.files, consumed |-> 0, current_file |-> 0,
                 node_file |-> 0, node |-> None, st |-> [nodes |-> <<>>, tell |-> 0]], LAMBDA none :
    IF ft = "bytes" THEN [err |-> "ValueError", rd |-> none]
    ELSE IF arg.files = <<>> THEN [err |-> "StopIteration", rd |-> none]
    ELSE IF nn.err # "" THEN [err |-> nn.err, rd |-> none]
    ELSE [err |-> "",
          rd |-> [files |-> arg.files, consumed |-> 1, current_file |-> 1,
                  node_file |-> 1, node |-> nn.pos, st |-> nn.st]]))))

\* Reader.node_finishes_stream: peek(1) == '' holds at the end of a text file
RNodeFinishesStream(rd) ==
    With(rd.files[rd.node_file], LAMBDA f :
        With(LEndPosition(f, rd.st, rd.node), LAMBDA e :
        With(LSkipSkippable(f, e.n), LAMBDA tell :
    IF e.err # "" THEN [err |-> e.err, st |-> e.st, finishes |-> FALSE]
    ELSE [err |-> "", st |-> [e.st EXCEPT !.tell = tell],
          finishes |-> ByteAt(f, tell) = "" /\ FileType(f) = "str"])))

\* Reader.next building the new Node where the current one starts, not where it ends
RNextAtStart(rd) ==
    With(RNodeFinishesStream(rd), LAMBDA fin :
        With([rd EXCEPT !.st = fin.st], LAMBDA rd1 :
        With(IF fin.finishes
               THEN [rd1 EXCEPT !.current_file = rd.consumed + 1, !.consumed = @ + 1]
               ELSE rd1, LAMBDA rd2 :
        With(rd2.files[rd2.current_file], LAMBDA f :
        With(IF fin.finishes THEN 0 ELSE rd.node, LAMBDA pos :
        With(LNewNode(f, FreshState(f), pos), LAMBDA nn :
    IF fin.err # "" THEN [err |-> fin.err, rd |-> rd1]
    ELSE IF fin.finishes /\ rd.consumed >= Len(rd.files)
    THEN [err |-> "StopIteration", rd |-> rd1]
    ELSE IF fin.finishes /\ FileType(f) # "str" THEN [err |-> "ValueError", rd |-> rd2]
    ELSE IF nn.err # "" THEN [err |-> nn.err, rd |-> rd2]
    ELSE [err |-> "", rd |-> [rd2 EXCEPT !.node_file = rd2.current_file, !.node = nn.pos, !.st = nn.st]]))))))

\* Reader.next
RNext(rd) ==
    With(RNodeFinishesStream(rd), LAMBDA fin :
        With([rd EXCEPT !.st = fin.st], LAMBDA rd1 :
        With(IF fin.finishes
               THEN [rd1 EXCEPT !.current_file = rd.consumed + 1, !.consumed = @ + 1]
               ELSE rd1, LAMBDA rd2 :
        With(rd2.files[rd2.current_file], LAMBDA f :
        With(IF fin.finishes THEN 0 ELSE LEndPosition(rd.files[rd.node_file], fin.st, rd.node).n, LAMBDA pos :
        With(LNewNode(f, FreshState(f), pos), LAMBDA nn :
    IF fin.err # "" THEN [err |-> fin.err, rd |-> rd1]
    ELSE IF fin.finishes /\ rd.consumed >= Len(rd.files)
    THEN [err |-> "StopIteration", rd |-> rd1]
    ELSE IF fin.finishes /\ FileType(f) # "str" THEN [err |-> "ValueError", rd |-> rd2]
    ELSE IF nn.err # "" THEN [err |-> nn.err, rd |-> rd2]
    ELSE [err |-> "", rd |-> [rd2 EXCEPT !.node_file = rd2.current_file, !.node = nn.pos, !.st = nn.st]]))))))

\* Reader.jump: for _ in range(n): self.next()
RECURSIVE RJumpLoop(_, _)
RJumpLoop(rd, n) ==
    With(RNext(rd), LAMBDA r :
    IF n <= 0 THEN [err |-> "", rd |-> rd]
    ELSE IF r.err # "" THEN r
    ELSE RJumpLoop(r.rd, n - 1))

\* Reader.jump without its check of n: range(n) is empty when n < 0
RJumpUnchecked(rd, n) == RJumpLoop(rd, n)

RJump(rd, n) == IF n < 0 THEN [err |-> "ValueError", rd |-> rd] ELSE RJumpLoop(rd, n)

(***************************************************************************)
(* The documents the operations are run on.                                *)
(*                                                                         *)
(* A document is written from a value: Serialize(v, style) is one of the   *)
(* JSON texts of v, decorated with the extensions the readers accept.  A   *)
(* style is [lead, trailing]: lead is put around every value, key and      *)
(* closing bracket, trailing asks for a comma after the last child.        *)
(***************************************************************************)
MaxItems == 2

Chr(code) ==
    CASE code = 97 -> "a" [] code = 98 -> "b" [] code = 99 -> "c"
      [] code = 92 -> "\\" [] code = 34 -> "\"" [] OTHER -> "x"

RECURSIVE Concat(_)
Concat(seqs) == IF seqs = <<>> THEN <<>> ELSE Head(seqs) \o Concat(Tail(seqs))

RECURSIVE IntDigits(_)
IntDigits(n) ==
    With(<<"0", "1", "2", "3", "4", "5", "6", "7", "8", "9">>[(n % 10) + 1], LAMBDA d :
    IF n < 10 THEN <<d>> ELSE Append(IntDigits(n \div 10), d))

RECURSIVE Pow10(_)
Pow10(k) == IF k <= 0 THEN 1 ELSE 10 * Pow10(k - 1)

Abs(n) == IF n < 0 THEN 0 - n ELSE n

\* the literal of a number: digits, and a fraction when it is not an integer
SerNum(v) ==
    With(IF v.m < 0 THEN <<"-">> ELSE <<>>, LAMBDA sign :
        With(Pow10(0 - v.e), LAMBDA scale :
        With(IntDigits(Abs(v.m) % scale), LAMBDA frac :
        With([i \in 1..((0 - v.e) - Len(frac)) |-> "0"], LAMBDA zeros :
    IF v.e >= 0 THEN sign \o IntDigits(Abs(v.m) * Pow10(v.e))
                     \o (IF v.kind = "float" THEN <<".", "0">> ELSE <<>>)
    ELSE sign \o IntDigits(Abs(v.m) \div scale) \o <<".">> \o zeros \o frac))))

\* the literal of a string: quote and backslash are escaped
SerStr(text) ==
    <<"\"">>
    \o Concat([i \in 1..Len(text) |->
                 IF text[i] \in {34, 92} THEN <<"\\", Chr(text[i])>> ELSE <<Chr(text[i])>>])
    \o <<"\"">>

RECURSIVE SerValue(_, _)

\* the text of child number i of a container, and what stands before its value
SerBefore(v, style, i) ==
    IF v.kind = "dict"
    THEN style.lead \o SerStr(v.keys[i]) \o style.lead \o <<":">> \o style.lead
    ELSE style.lead

SerChild(v, style, i) == SerBefore(v, style, i) \o SerValue(v.items[i], style) \o style.lead

\* the container up to and including its first m children, commas between them
SerOpen(v, style, m) ==
    (IF v.kind = "dict" THEN <<"{">> ELSE <<"[">>)
    \o Concat([i \in 1..m |-> (IF i > 1 THEN <<",">> ELSE <<>>) \o SerChild(v, style, i)])

SerValue(v, style) ==
    CASE v.kind = "null" -> <<"n", "u", "l", "l">>
      [] v.kind = "true" -> <<"t", "r", "u", "e">>
      [] v.kind = "false" -> <<"f", "a", "l", "s", "e">>
      [] v.kind \in {"int", "float"} -> SerNum(v)
      [] v.kind = "str" -> SerStr(v.text)
      [] OTHER ->
            SerOpen(v, style, Len(v.items))
            \o (IF style.trailing /\ v.items # <<>> THEN <<",">> ELSE <<>>)
            \o style.lead
            \o (IF v.kind = "dict" THEN <<"}">> ELSE <<"]">>)

\* the offset at which the value of child number i of the document's root starts
ChildOffset(v, style, i) ==
    Len(style.lead) + Len(SerOpen(v, style, i - 1)) + (IF i > 1 THEN 1 ELSE 0)
    + Len(SerBefore(v, style, i))

Plain == [lead |-> <<>>, trailing |-> FALSE]
Spaced == [lead |-> <<" ">>, trailing |-> FALSE]
Trailing == [lead |-> <<>>, trailing |-> TRUE]
Commented == [lead |-> <<"/", "/", "c", "\n">>, trailing |-> FALSE]
Styles == {Plain, Spaced, Trailing, Commented}

\* a document: its characters, where its root and the root's children start, the
\* value it was written from, and the number of children written in full
\*   kind "value"   Serialize(orig, style)
\*   kind "tailed"  a container cut after its children, then tail
\*   kind "number"  a number literal
Document(data, kind, orig, root, offs) ==
    [data |-> data, kind |-> kind, orig |-> orig, root |-> root, offs |-> offs, tail |-> ""]

Serialize(v, style) ==
    Document(style.lead \o SerValue(v, style) \o style.lead, "value", v, Len(style.lead),
             [i \in 1..Len(v.items) |-> ChildOffset(v, style, i)])

\* the malformed tails: end of file, garbage, garbage after a comma, and a further
\* child that starts well and is cut
Tails == {"eof", "garbage", "comma garbage", "open child"}

TailText(v, tail) ==
    With(IF v.items = <<>> THEN <<>> ELSE <<",">>, LAMBDA sep :
    CASE tail = "eof" -> <<>>
      [] tail = "garbage" -> <<"x">>
      [] tail = "comma garbage" -> <<",", "x">>
      [] OTHER -> sep \o (IF v.kind = "dict" THEN <<"\"", "d", "\"", ":">> ELSE <<>>) \o <<"[", "x">>)

Malformed(v, tail) ==
    [Document(SerOpen(v, Plain, Len(v.items)) \o TailText(v, tail), "tailed", v, 0,
              [i \in 1..Len(v.items) |-> ChildOffset(v, Plain, i)])
     EXCEPT !.tail = tail]

VInt(n) == VNum("int", n, 0)

KeyNames == <<<<97>>, <<98>>, <<99>>>>
SeqsUpTo(S, n) == UNION {[1..k -> S] : k \in 0..n}

\* the values documents are written from
Scalars == {VNull, VTrue, VFalse, VInt(1), VInt(0 - 10), VNum("float", 15, 0 - 1),
            VStr(<<>>), VStr(<<97>>), VStr(<<92>>), VStr(<<97, 34, 98>>)}
Elements == {VInt(1), VStr(<<97>>), VList(<<VInt(1)>>)}
Lists == {VList(items) : items \in SeqsUpTo(Elements, MaxItems)}
Dicts == {VDict(SubSeq(KeyNames, 1, Len(items)), items) : items \in SeqsUpTo(Elements, MaxItems)}
Nested == {VList(<<VList(<<>>), VInt(1)>>), VList(<<VDict(<<>>, <<>>), VInt(1)>>),
           VList(<<VList(<<VInt(1)>>), VList(<<VInt(1)>>)>>),
           VDict(<<<<97>>>>, <<VDict(<<<<98>>>>, <<VList(<<VInt(1), VInt(1)>>)>>)>>),
           VList(<<VStr(<<92>>)>>)}
Containers == Lists \cup Dicts
Values == Scalars \cup Containers \cup Nested

\* number literals: sign, integer part, fraction, exponent
NumberLiterals ==
    {sign \o int \o frac \o exp :
        sign \in {<<>>, <<"-">>}, int \in {<<"0">>, <<"1">>, <<"1", "0">>},
        frac \in {<<>>, <<".", "5">>},
        exp \in {<<>>, <<"e", "1">>, <<"E", "1">>, <<"e", "-", "1">>, <<"e", "+", "1">>}}

\* the documents value() is run on: every value in every style, and the literals
ValueDocuments ==
    {Serialize(v, style) : v \in Values, style \in Styles}
    \cup {Document(lit, "number", VNull, 0, <<>>) : lit \in NumberLiterals}

\* the documents the other operations are run on: containers, whole and cut
NodeElements == {VInt(1), VList(<<VInt(1)>>)}
NodeContainers ==
    {VList(items) : items \in SeqsUpTo(NodeElements, MaxItems)}
    \cup {VDict(SubSeq(KeyNames, 1, Len(items)), items) : items \in SeqsUpTo(NodeElements, MaxItems)}
    \cup {VList(<<VStr(<<92>>)>>)}
NodeDocuments ==
    {Serialize(v, Plain) : v \in NodeContainers}
    \cup {Malformed(v, tail) : v \in NodeContainers, tail \in Tails}

(***************************************************************************)
(* The state of a program that holds one Node on one document.             *)
(*   doc    the document the file holds                                    *)
(*   impl   which package the Node is of: "lazyjson" (a binary file) or    *)
(*          "sleepyjson" (a text file)                                     *)
(*   root   the offset of the Node the program built with Node(file, 0)    *)
(*   lst    lazyjson: the Node objects (their caches) and the file cursor  *)
(*   send   sleepyjson: the end attribute of the root Node                 *)
(*   iter   the iterator the program holds on the root, if any: live, the  *)
(*          lazyjson generator l or the sleepyjson generator g, and n, the *)
(*          number of next() calls made on it, clean while no other        *)
(*          operation ran on the root since iter() made it                 *)
(*   last   the last operation and what it returned or raised              *)
(*   rd     the Reader, nav its document index and position cache, trace   *)
(*          the calls made on it since it was built, while none failed and *)
(*          they are the calls of GoBack                                   *)
(***************************************************************************)
VARIABLES doc, impl, root, lst, send, iter, last, rd, nav, trace

vars == <<doc, impl, root, lst, send, iter, last, rd, nav, trace>>

Impls == {"lazyjson", "sleepyjson"}

File == IF impl = "lazyjson" THEN BinFile(doc.data) ELSE TextFile(doc.data)

NoIter == [live |-> FALSE, l |-> NewIter, g |-> NewGen, n |-> 0, clean |-> TRUE]
FreshIter == [NoIter EXCEPT !.live = TRUE]
Disturbed == IF iter.live THEN [iter EXCEPT !.clean = FALSE] ELSE iter

\* what an operation returned: err is "" or the exception, n a child's offset or a
\* length, key a yielded key, v a value, out what a next() did
Outcome(op, k, key, err, n, v, out) ==
    [op |-> op, k |-> k, key |-> key, err |-> err, n |-> n, v |-> v, out |-> out]
NoOutcome == Outcome("", 0, NoKey, "", None, VNull, "")

NoReader == [files |-> <<>>, consumed |-> 0, current_file |-> 0, node_file |-> 0,
             node |-> None, st |-> [nodes |-> <<>>, tell |-> 0]]
NoNav == [index |-> 0, positions |-> <<>>]

\* Node(file, 0) on a document of D
InitOn(D) ==
    /\ doc \in D
    /\ impl \in Impls
    /\ "" = IF impl = "lazyjson" THEN LNewNode(File, FreshState(File), 0).err
            ELSE SNewNode(File, 0).err
    /\ root = IF impl = "lazyjson" THEN LNewNode(File, FreshState(File), 0).pos
              ELSE SNewNode(File, 0).pos
    /\ lst = IF impl = "lazyjson" THEN LNewNode(File, FreshState(File), 0).st
             ELSE [nodes |-> <<>>, tell |-> 0]
    /\ send = None
    /\ iter = NoIter
    /\ last = NoOutcome
    /\ rd = NoReader
    /\ nav = NoNav
    /\ trace = <<>>

Indexes == (0 - (MaxItems + 1))..MaxItems
\* "a" and "b" are keys of the documents, "d" of the child a tail opens, "x" of none
Keys == {<<97>>, <<98>>, <<100>>, <<120>>}

\* what an operation on the root leaves behind
Lazily(r, outcome) == [last |-> outcome, lst |-> r.st, send |-> send, iter |-> Disturbed]
Sleepily(r, outcome) == [last |-> outcome, lst |-> lst, send |-> r.end, iter |-> Disturbed]

Apply(step) ==
    /\ last' = step.last
    /\ lst' = step.lst
    /\ send' = step.send
    /\ iter' = step.iter
    /\ UNCHANGED <<doc, impl, root, rd, nav, trace>>

\* node[k], k an integer
Get(k) ==
    Apply(IF impl = "lazyjson"
          THEN With(LGetIndex(File, lst, root, k), LAMBDA r :
                    Lazily(r, Outcome("get", k, NoKey, r.err, r.child, VNull, "")))
          ELSE With(SGetIndex(File, root, send, k), LAMBDA r :
                    Sleepily(r, Outcome("get", k, NoKey, r.err, r.child, VNull, ""))))

\* node[key], key a string
GetKey(key) ==
    Apply(IF impl = "lazyjson"
          THEN With(LGetKey(File, lst, root, key), LAMBDA r :
                    Lazily(r, Outcome("getkey", 0, key, r.err, r.child, VNull, "")))
          ELSE With(SGetKey(File, root, send, key), LAMBDA r :
                    Sleepily(r, Outcome("getkey", 0, key, r.err, r.child, VNull, ""))))

\* len(node)
Length ==
    Apply(IF impl = "lazyjson"
          THEN With(LLen(File, lst, root), LAMBDA r :
                    Lazily(r, Outcome("len", 0, NoKey, r.err, r.n, VNull, "")))
          ELSE With(SLen(File, root, send), LAMBDA r :
                    Sleepily(r, Outcome("len", 0, NoKey, r.err, r.n, VNull, ""))))

\* node.value()
Value ==
    Apply(IF impl = "lazyjson"
          THEN With(LValue(File, lst, root), LAMBDA r :
                    Lazily(r, Outcome("value", 0, NoKey, r.err, None,
                                      IF r.err = "" THEN r.v ELSE VNull, "")))
          ELSE With(SValue(File, root, send), LAMBDA r :
                    Sleepily(r, Outcome("value", 0, NoKey, r.err, None,
                                        IF r.err = "" THEN r.v ELSE VNull, ""))))

\* node.end_position(): n is None when it returned None
EndPosition ==
    Apply(IF impl = "lazyjson"
          THEN With(LEndPosition(File, lst, root), LAMBDA r :
                    Lazily(r, Outcome("end", 0, NoKey, r.err,
                                      IF r.err = "" THEN r.n ELSE None, VNull, "")))
          ELSE With(SEndPosition(File, root, send), LAMBDA r :
                    Sleepily(r, Outcome("end", 0, NoKey, r.err,
                                        IF r.err = "" THEN r.n ELSE None, VNull, ""))))

\* item in node: out is "True" or "False", v the item
Membership(item) ==
    Apply(IF impl = "lazyjson"
          THEN With(LContains(File, lst, root, item), LAMBDA r :
                    Lazily(r, Outcome("in", 0, NoKey, r.err, None, item,
                                      IF r.err # "" THEN "" ELSE IF r.found THEN "True" ELSE "False")))
          ELSE With(SContains(File, root, send, item), LAMBDA r :
                    Sleepily(r, Outcome("in", 0, NoKey, r.err, None, item,
                                        IF r.err # "" THEN "" ELSE IF r.found THEN "True" ELSE "False"))))

\* node.equals(other): out is "True" or "False", v is other; the lazyjson Node
\* has no such attribute
Equals(other) ==
    Apply(IF impl = "lazyjson"
          THEN Lazily([st |-> lst], Outcome("equals", 0, NoKey, "AttributeError", None, other, ""))
          ELSE With(SEquals(File, root, send, other), LAMBDA r :
                    Sleepily(r, Outcome("equals", 0, NoKey, r.err, None, other,
                                        IF r.err # "" THEN "" ELSE IF r.eq THEN "True" ELSE "False"))))

\* file.seek(t) on the file the Node shares with the program
MoveCursor(t) ==
    /\ t # lst.tell
    /\ Apply([last |-> Outcome("seek", t, NoKey, "", None, VNull, ""),
              lst |-> [lst EXCEPT !.tell = t], send |-> send, iter |-> iter])

\* first_child.value() of the first child the program got from node[0] or
\* node[key] some time before; in lazyjson it is the Node in the root's cache
FirstChildValue ==
    /\ doc.offs # <<>>
    /\ impl = "lazyjson" => lst.nodes[root].children # <<>>
    /\ Apply(IF impl = "lazyjson"
             THEN With(LValue(File, lst, doc.offs[1]), LAMBDA r :
                       [last |-> Outcome("firstvalue", 0, NoKey, r.err, doc.offs[1],
                                         IF r.err = "" THEN r.v ELSE VNull, ""),
                        lst |-> r.st, send |-> send, iter |-> iter])
             ELSE With(SValue(File, doc.offs[1], None), LAMBDA r :
                       [last |-> Outcome("firstvalue", 0, NoKey, r.err, doc.offs[1],
                                         IF r.err = "" THEN r.v ELSE VNull, ""),
                        lst |-> lst, send |-> send, iter |-> iter]))

\* child.value() of the child the last node[k] or node[key] returned: lazyjson
\* keeps the child Node in the root's cache, sleepyjson made a Node for it
ChildValue ==
    /\ last.op \in {"get", "getkey"}
    /\ last.err = ""
    /\ Apply(IF impl = "lazyjson"
             THEN With(LValue(File, lst, last.n), LAMBDA r :
                       Lazily(r, Outcome("childvalue", last.k, last.key, r.err, last.n,
                                         IF r.err = "" THEN r.v ELSE VNull, "")))
             ELSE With(SValue(File, last.n, None), LAMBDA r :
                       Sleepily([end |-> send],
                                Outcome("childvalue", last.k, last.key, r.err, last.n,
                                        IF r.err = "" THEN r.v ELSE VNull, ""))))

\* it = iter(node)
Iter ==
    Apply([last |-> Outcome("iter", 0, NoKey, "", None, VNull, ""),
           lst |-> lst, send |-> send, iter |-> FreshIter])

\* next(it): the n-th on this iterator
IterNext ==
    /\ iter.live
    /\ Apply(With(Min(iter.n + 1, MaxItems + 2), LAMBDA n :
             IF impl = "lazyjson"
             THEN With(LIterStep(File, lst, root, iter.l), LAMBDA l :
                       [last |-> Outcome("next", n, l.key, l.err, l.child, VNull, l.out),
                        lst |-> l.st, send |-> send,
                        iter |-> [iter EXCEPT !.l = l.it, !.n = n]])
             ELSE With(SIterStep(File, root, iter.g, send), LAMBDA g :
                       [last |-> Outcome("next", n,
                                         IF STypeAt(File, root) = "OBJECT" THEN g.key ELSE NoKey,
                                         g.err,
                                         IF STypeAt(File, root) = "ARRAY" THEN g.child ELSE None,
                                         VNull, g.out),
                        lst |-> lst, send |-> g.end,
                        iter |-> [iter EXCEPT !.g = g.gen, !.n = n]])))

NextNode ==
    \/ \E k \in Indexes : Get(k)
    \/ \E key \in Keys : GetKey(key)
    \/ Length
    \/ Value
    \/ ChildValue
    \/ Iter
    \/ IterNext

InitNode == InitOn(NodeDocuments)
Spec == InitNode /\ [][NextNode]_vars

\* membership, before and after len(), on the containers, whole and cut
MemberItems == {VInt(1), VInt(0), VStr(<<97>>), VStr(<<98>>)}
NextIn == (\E item \in MemberItems : Membership(item)) \/ Length
SpecIn == InitNode /\ [][NextIn]_vars

\* equals, before and after value(), on scalars, arrays and objects and against
\* the same values and shorter and longer ones
EqualsValues ==
    {VInt(1), VInt(0), VTrue, VNull, VStr(<<97>>),
     VList(<<>>), VList(<<VInt(1)>>), VList(<<VInt(1), VInt(0)>>), VList(<<VInt(0), VInt(1)>>),
     VList(<<VList(<<VInt(1)>>), VInt(1)>>),
     VDict(<<>>, <<>>), VDict(<<<<97>>>>, <<VInt(1)>>), VDict(<<<<97>>>>, <<VInt(0)>>),
     VDict(<<<<97>>, <<98>>>>, <<VInt(1), VInt(0)>>), VDict(<<<<98>>>>, <<VInt(0)>>),
     VDict(<<<<97>>>>, <<VDict(<<>>, <<>>)>>)}
InitEquals == InitOn({Serialize(v, Plain) : v \in EqualsValues})
NextEquals == (\E other \in EqualsValues : Equals(other)) \/ Value
SpecEquals == InitEquals /\ [][NextEquals]_vars

\* the operations of a Node while the cursor of its file is moved between them
CursorValues ==
    {VList(<<VInt(0), VFalse>>), VList(<<VList(<<VInt(1)>>), VInt(1)>>),
     VDict(<<<<97>>, <<98>>>>, <<VInt(1), VList(<<VInt(1)>>)>>), VList(<<>>)}
InitCursor ==
    InitOn({Serialize(v, Plain) : v \in CursorValues}
           \cup {Serialize(VList(<<VInt(0), VFalse>>), Spaced)})
NextCursor ==
    \/ \E t \in {0, Len(doc.data)} : MoveCursor(t)
    \/ FirstChildValue
    \/ \E k \in Indexes : Get(k)
    \/ \E key \in Keys : GetKey(key)
    \/ Length
    \/ Value
    \/ EndPosition
    \/ Iter
    \/ IterNext
SpecCursor == InitCursor /\ [][NextCursor]_vars

\* value() alone, on every serialization
InitValue == InitOn(ValueDocuments)
NextValue == Value
SpecValue == InitValue /\ [][NextValue]_vars

\* value() on string literals written with escapes: a plain character, the
\* eight short escapes, \u with four hexadecimal digits, with fewer, and an
\* escape letter that does not exist
MaxUnits == 2
EscapeUnits ==
    {<<"a">>, <<"\\", "\"">>, <<"\\", "\\">>, <<"\\", "/">>, <<"\\", "b">>, <<"\\", "f">>,
     <<"\\", "n">>, <<"\\", "r">>, <<"\\", "t">>,
     <<"\\", "u", "0", "0", "4", "1">>, <<"\\", "u", "0", "0", "e", "9">>,
     <<"\\", "u", "4", "1">>, <<"\\", "u", "0", "0", "4", "x">>, <<"\\", "x">>}
RECURSIVE Flatten(_)
Flatten(units) == IF units = <<>> THEN <<>> ELSE Head(units) \o Flatten(Tail(units))
EscapeLiterals == {<<"\"">> \o Flatten(units) \o <<"\"">> : units \in SeqsUpTo(EscapeUnits, MaxUnits)}
InitEscape == InitOn({Document(t, "input", VNull, 0, <<>>) : t \in EscapeLiterals})
NextEscape == Value \/ EndPosition
SpecEscape == InitEscape /\ [][NextEscape]_vars

\* end_position(), before and after value(), on every serialization
NextEnd == EndPosition \/ Value
SpecEnd == InitValue /\ [][NextEnd]_vars

(***************************************************************************)
(* Containers with commas in unusual places.                               *)
(*   kind "commas"   every child is written, then one or two commas with   *)
(*                   pad around each, then the closing delimiter; tail is  *)
(*                   "one" or "two"                                        *)
(*   kind "nocomma"  a blank stands where the comma between the first and  *)
(*                   the second child should be                            *)
(***************************************************************************)
SerClose(v) == IF v.kind = "dict" THEN <<"}">> ELSE <<"]">>

Commas(v, count, pad) ==
    [Document(SerOpen(v, Plain, Len(v.items))
              \o Concat([i \in 1..(IF count = "one" THEN 1 ELSE 2) |-> pad \o <<",">> \o pad])
              \o SerClose(v),
              "commas", v, 0, [i \in 1..Len(v.items) |-> ChildOffset(v, Plain, i)])
     EXCEPT !.tail = count]

NoComma(v) ==
    Document(SerOpen(v, Plain, 1) \o <<" ">> \o SerChild(v, Plain, 2) \o SerClose(v),
             "nocomma", v, 0,
             [i \in 1..2 |-> ChildOffset(v, Plain, i)])

CommaDocuments ==
    {Commas(v, count, pad) : v \in NodeContainers, count \in {"one", "two"},
                             pad \in {<<>>, <<" ">>}}
    \cup {NoComma(v) : v \in {c \in NodeContainers : Len(c.items) = 2}}

InitComma == InitOn(CommaDocuments)
\* the operations that discover a container in full
NextComma ==
    \/ Length
    \/ Value
    \/ EndPosition
    \/ Iter
    \/ IterNext
SpecComma == InitComma /\ [][NextComma]_vars

(***************************************************************************)
(* Objects that hold a key more than once.                                 *)
(***************************************************************************)
DupKeys == {ks \in SeqsUpTo({<<97>>, <<98>>}, MaxItems + 1) :
               \E i, j \in 1..Len(ks) : i < j /\ ks[i] = ks[j]}
DupDocuments ==
    {[Serialize(VDict(ks, [i \in 1..Len(ks) |-> VInt(1)]), Plain) EXCEPT !.kind = "dup"] :
        ks \in DupKeys}

InitDup == InitOn(DupDocuments)
NextDup ==
    \/ \E key \in Keys : GetKey(key)
    \/ Length
    \/ Value
    \/ Iter
    \/ IterNext
SpecDup == InitDup /\ [][NextDup]_vars

(***************************************************************************)
(* measure_string alone, on the bytes that follow an opening quote.        *)
(***************************************************************************)
MaxScan == 4
\* what follows an opening quote: quotes, backslashes, line breaks and a letter
ScanChars == {"\"", "\\", "a", "\n", "\r"}
ScanInputs == {<<"\"">> \o t : t \in SeqsUpTo(ScanChars, MaxScan)}

InitScan ==
    /\ doc \in {Document(t, "input", VNull, 0, <<>>) : t \in ScanInputs}
    /\ impl \in Impls
    /\ root = 0
    /\ lst = [nodes |-> <<>>, tell |-> 0]
    /\ send = None
    /\ iter = NoIter
    /\ last = NoOutcome
    /\ rd = NoReader
    /\ nav = NoNav
    /\ trace = <<>>

\* measure_string(file) / Parser.measure_string(pos) at the opening quote
MeasureString ==
    /\ last' = IF impl = "lazyjson"
               THEN With(LMeasureString(File, 0), LAMBDA r :
                         Outcome("measure_string", 0, NoKey, r.err, r.n, VNull, ""))
               ELSE With(SMeasureString(File, 0), LAMBDA r :
                         Outcome("measure_string", 0, NoKey, r.err, r.n, VNull, ""))
    /\ UNCHANGED <<doc, impl, root, lst, send, iter, rd, nav, trace>>

NextScan == MeasureString
SpecScan == InitScan /\ [][NextScan]_vars

(***************************************************************************)
(* measure_number on its own: the file holds a run of characters and the   *)
(* number is measured at offset 0.                                         *)
(***************************************************************************)
MaxNumber == 4
\* a sign of each kind, a zero and a non-zero digit, the point, the exponent
\* letter, and a character that is no number character
NumberInputChars == {"-", "+", "0", "1", ".", "e", "x"}
NumberInputs == SeqsUpTo(NumberInputChars, MaxNumber)

InitNumber ==
    /\ doc \in {Document(t, "input", VNull, 0, <<>>) : t \in NumberInputs}
    /\ impl \in Impls
    /\ root = 0
    /\ lst = [nodes |-> <<>>, tell |-> 0]
    /\ send = None
    /\ iter = NoIter
    /\ last = NoOutcome
    /\ rd = NoReader
    /\ nav = NoNav
    /\ trace = <<>>

\* measure_number(file, 0) / Parser.measure_number(0)
MeasureNumber ==
    /\ last' = IF impl = "lazyjson"
               THEN With(LMeasureNumber(File, 0), LAMBDA r :
                         Outcome("measure_number", 0, NoKey, r.err, r.n, VNull, ""))
               ELSE With(SMeasureNumber(File, 0), LAMBDA r :
                         Outcome("measure_number", 0, NoKey, r.err, r.n, VNull, ""))
    /\ UNCHANGED <<doc, impl, root, lst, send, iter, rd, nav, trace>>

NextNumber == MeasureNumber
SpecNumber == InitNumber /\ [][NextNumber]_vars

(***************************************************************************)
(* measure_string and measure_number reading chunk characters at a time    *)
(* where the code reads 1024.                                              *)
(***************************************************************************)
MaxChunk == 3

InitChunk ==
    /\ doc \in {Document(t, "input", VNull, 0, <<>>) : t \in ScanInputs \cup NumberInputs}
    /\ impl \in Impls
    /\ root = 0
    /\ lst = [nodes |-> <<>>, tell |-> 0]
    /\ send = None
    /\ iter = NoIter
    /\ last = NoOutcome
    /\ rd = NoReader
    /\ nav = NoNav
    /\ trace = <<>>

\* measure_string at the opening quote, file.read(chunk) in place of file.read(1024)
MeasureStringBy(chunk) ==
    /\ At(doc.data, 0) = "\""
    /\ last' = IF impl = "lazyjson"
               THEN With(LMeasureStringChunked(File, 0, chunk), LAMBDA r :
                         Outcome("measure_string", chunk, NoKey, r.err, r.n, VNull, ""))
               ELSE With(SMeasureStringChunked(File, 0, chunk), LAMBDA r :
                         Outcome("measure_string", chunk, NoKey, r.err, r.n, VNull, ""))
    /\ UNCHANGED <<doc, impl, root, lst, send, iter, rd, nav, trace>>

\* measure_number at offset 0, file.read(chunk) in place of file.read(BUF_LENGTH);
\* lazyjson reads one byte at a time whatever the chunk
MeasureNumberBy(chunk) ==
    /\ At(doc.data, 0) # "\""
    /\ last' = IF impl = "lazyjson"
               THEN With(LMeasureNumber(File, 0), LAMBDA r :
                         Outcome("measure_number", chunk, NoKey, r.err, r.n, VNull, ""))
               ELSE With(SMeasureNumberChunked(File, 0, chunk), LAMBDA r :
                         Outcome("measure_number", chunk, NoKey, r.err, r.n, VNull, ""))
    /\ UNCHANGED <<doc, impl, root, lst, send, iter, rd, nav, trace>>

NextChunk ==
    \/ \E chunk \in 1..MaxChunk : MeasureStringBy(chunk)
    \/ \E chunk \in 1..MaxChunk : MeasureNumberBy(chunk)
SpecChunk == InitChunk /\ [][NextChunk]_vars

(***************************************************************************)
(* skip_skippable on its own: the file holds a run of characters and the   *)
(* cursor is put at an offset of it before the call.                       *)
(***************************************************************************)
MaxSkip == 4
\* blanks, both line breaks, the slash, a letter for comments and a digit
SkipInputChars == {" ", "\n", "\r", "/", "c", "1"}
SkipInputs == SeqsUpTo(SkipInputChars, MaxSkip)

InitSkip ==
    /\ doc \in {Document(t, "input", VNull, 0, <<>>) : t \in SkipInputs}
    /\ impl \in Impls
    /\ root = 0
    /\ lst = [nodes |-> <<>>, tell |-> 0]
    /\ send = None
    /\ iter = NoIter
    /\ last = NoOutcome
    /\ rd = NoReader
    /\ nav = NoNav
    /\ trace = <<>>

\* file.seek(pos); skip_skippable(); file.tell()
SkipSkippable(pos) ==
    /\ pos <= Len(doc.data)
    /\ last' = Outcome("skip_skippable", pos, NoKey, "",
                       IF impl = "lazyjson" THEN LSkipSkippable(File, pos)
                       ELSE SSkipSkippable(File, pos), VNull, "")
    /\ UNCHANGED <<doc, impl, root, lst, send, iter, rd, nav, trace>>

NextSkip == \E pos \in 0..MaxSkip : SkipSkippable(pos)
SpecSkip == InitSkip /\ [][NextSkip]_vars

(***************************************************************************)
(* Reader.prev and Reader.seek, and the document index and position cache  *)
(* they rest on.  nav is [index, positions]: positions[i + 1] is where     *)
(* document number i starts, [file, pos], for every document visited.      *)
(***************************************************************************)
\* what a successful next() adds: the index moves on, the new start is recorded
NavNext(nv, r) ==
    [index |-> nv.index + 1,
     positions |-> IF nv.index + 1 < Len(nv.positions) THEN nv.positions
                   ELSE Append(nv.positions, [file |-> r.node_file, pos |-> r.node])]

\* the index and cache after jump(n): one NavNext for each next() that succeeded
RECURSIVE NavJump(_, _, _)
NavJump(nv, r, n) ==
    IF n <= 0 THEN nv
    ELSE With(RNext(r), LAMBDA x :
         IF x.err # "" THEN nv ELSE NavJump(NavNext(nv, x.rd), x.rd, n - 1))

\* the Node rebuilt from a cached start
Reconstruct(r, at) ==
    With(LNewNode(r.files[at.file], FreshState(r.files[at.file]), at.pos), LAMBDA nn :
    [r EXCEPT !.current_file = at.file, !.node_file = at.file, !.node = nn.pos, !.st = nn.st])

RPrev(r, nv) ==
    IF nv.index = 0 THEN [err |-> "AtStart", rd |-> r, nav |-> nv]
    ELSE [err |-> "", rd |-> Reconstruct(r, nv.positions[nv.index]),
          nav |-> [nv EXCEPT !.index = @ - 1]]

\* next() replayed until the index is reached; an error of next() ends the replay
RECURSIVE RSeekReplay(_, _, _)
RSeekReplay(r, nv, index) ==
    IF nv.index >= index THEN [err |-> "", rd |-> r, nav |-> nv]
    ELSE With(RNext(r), LAMBDA x :
         IF x.err # "" THEN [err |-> x.err, rd |-> x.rd, nav |-> nv]
         ELSE RSeekReplay(x.rd, NavNext(nv, x.rd), index))

RSeek(r, nv, index) ==
    IF index < 0 THEN [err |-> "NegativeIndex", rd |-> r, nav |-> nv]
    ELSE IF index < Len(nv.positions)
    THEN [err |-> "", rd |-> Reconstruct(r, nv.positions[index + 1]),
          nav |-> [nv EXCEPT !.index = index]]
    ELSE RSeekReplay(Reconstruct(r, nv.positions[Len(nv.positions)]),
                     [nv EXCEPT !.index = Len(nv.positions) - 1], index)

(***************************************************************************)
(* The state of a program that holds one Reader.  doc is the argument of   *)
(* Reader(...): [single, files, starts], starts[i] the offsets at which    *)
(* the documents of files[i] start.                                        *)
(***************************************************************************)
MaxDocs == 3

\* the calls of test_can_go_back; trace keeps the calls made so far while they are its calls
GoBack == <<"next", "next", "prev">>

\* a source: documents written one after the other, a blank between them
SourceData(vs) == Concat([i \in 1..Len(vs) |-> SerValue(vs[i], Plain) \o <<" ">>])
SourceStarts(vs) == [i \in 1..Len(vs) |-> Len(SourceData(SubSeq(vs, 1, i - 1)))]

ReaderValues == {VInt(1), VDict(<<<<97>>>>, <<VList(<<VInt(1)>>)>>)}
Sources == UNION {[1..k -> ReaderValues] : k \in 1..MaxDocs}
Seconds == {<<VInt(1)>>}

ReaderArg(single, files, starts) == [single |-> single, files |-> files, starts |-> starts]

ReaderArgs ==
    {ReaderArg(single,
               <<IF binary THEN BinFile(SourceData(vs)) ELSE TextFile(SourceData(vs))>>,
               <<SourceStarts(vs)>>) :
        single \in BOOLEAN, binary \in BOOLEAN, vs \in Sources}
    \cup {ReaderArg(FALSE, <<BinFile(SourceData(vs)), BinFile(SourceData(ws))>>,
                    <<SourceStarts(vs), SourceStarts(ws)>>) :
            vs \in Sources, ws \in Seconds}

\* every document of every source, [file, pos], in source order then document order
AllDocs ==
    Concat([i \in 1..Len(doc.files) |->
              [j \in 1..Len(doc.starts[i]) |-> [file |-> i, pos |-> doc.starts[i][j]]]])

\* the number of the document the Reader is on, 0 when it is on none of them
DocNumber(r) ==
    IF \E i \in 1..Len(AllDocs) : AllDocs[i] = [file |-> r.node_file, pos |-> r.node]
    THEN CHOOSE i \in 1..Len(AllDocs) : AllDocs[i] = [file |-> r.node_file, pos |-> r.node]
    ELSE 0

Overflow == <<"...">>
Traced(err, op) ==
    IF err # "" \/ trace = Overflow \/ Len(trace) >= Len(GoBack) THEN Overflow
    ELSE IF GoBack[Len(trace) + 1] # op THEN Overflow
    ELSE Append(trace, op)

InitReader ==
    /\ doc \in ReaderArgs
    /\ impl = "lazyjson"
    /\ root = None
    /\ lst = [nodes |-> <<>>, tell |-> 0]
    /\ send = None
    /\ iter = NoIter
    /\ last = NoOutcome
    /\ rd = NoReader
    /\ nav = NoNav
    /\ trace = <<>>

\* what a call on the Reader leaves behind; k is the call's argument, or the
\* number of the document the Reader was on
Navigate(op, k, r, nv) ==
    /\ last' = Outcome(op, k, NoKey, r.err, None, VNull, "")
    /\ rd' = r.rd
    /\ nav' = nv
    /\ trace' = Traced(r.err, op)
    /\ UNCHANGED <<doc, impl, root, lst, send, iter>>

\* reader = Reader(files)
Construct ==
    /\ last.op = ""
    /\ last' = Outcome("Reader", 0, NoKey, RInit(doc).err, None, VNull, "")
    /\ rd' = RInit(doc).rd
    /\ nav' = IF RInit(doc).err # "" THEN NoNav
              ELSE [index |-> 0, positions |-> <<[file |-> 1, pos |-> RInit(doc).rd.node]>>]
    /\ UNCHANGED <<doc, impl, root, lst, send, iter, trace>>

Built == last.op # "" /\ rd.node # None

\* reader.next()
Next ==
    /\ Built
    /\ Navigate("next", DocNumber(rd), RNext(rd),
                IF RNext(rd).err = "" THEN NavNext(nav, RNext(rd).rd) ELSE nav)

\* reader.jump(n)
Jump(n) ==
    /\ Built
    /\ Navigate("jump", n, RJump(rd, n), NavJump(nav, rd, n))

\* reader.prev()
Prev ==
    /\ Built
    /\ Navigate("prev", nav.index, RPrev(rd, nav), RPrev(rd, nav).nav)

\* reader.seek(index)
Seek(index) ==
    /\ Built
    /\ Navigate("seek", index, RSeek(rd, nav, index), RSeek(rd, nav, index).nav)

NextReader ==
    \/ Construct
    \/ Next
    \/ \E n \in (0 - 1)..MaxDocs : Jump(n)
    \/ Prev
    \/ \E index \in (0 - 1)..MaxDocs : Seek(index)

SpecReader == InitReader /\ [][NextReader]_vars

(***************************************************************************)
(* A program that calls again the operation that has just raised: on a     *)
(* Node over a container, whole or cut, or on a Reader.  The outcome of    *)
(* the second call keeps in out the exception the first one raised.        *)
(***************************************************************************)
IsReaderArg == "single" \in DOMAIN doc

\* node[k] again, with the k of the node[k] that has just raised
GetAgain ==
    /\ last.op = "get" /\ last.err # ""
    /\ Apply(IF impl = "lazyjson"
             THEN With(LGetIndex(File, lst, root, last.k), LAMBDA r :
                       Lazily(r, Outcome("get", last.k, NoKey, r.err, r.child, VNull, last.err)))
             ELSE With(SGetIndex(File, root, send, last.k), LAMBDA r :
                       Sleepily(r, Outcome("get", last.k, NoKey, r.err, r.child, VNull, last.err))))

\* reader.next() again after the reader.next() that has just raised
NextAgain ==
    /\ Built
    /\ last.op = "next" /\ last.err # ""
    /\ last' = Outcome("next", DocNumber(rd), NoKey, RNext(rd).err, None, VNull, last.err)
    /\ rd' = RNext(rd).rd
    /\ nav' = IF RNext(rd).err = "" THEN NavNext(nav, RNext(rd).rd) ELSE nav
    /\ trace' = Overflow
    /\ UNCHANGED <<doc, impl, root, lst, send, iter>>

InitRetry == InitNode \/ InitReader
NextRetry ==
    \/ ~IsReaderArg /\ (\E k \in Indexes : Get(k))
    \/ ~IsReaderArg /\ (\E key \in Keys : GetKey(key))
    \/ ~IsReaderArg /\ Length
    \/ ~IsReaderArg /\ Value
    \/ ~IsReaderArg /\ EndPosition
    \/ ~IsReaderArg /\ GetAgain
    \/ IsReaderArg /\ Construct
    \/ IsReaderArg /\ Next
    \/ IsReaderArg /\ (\E n \in (0 - 1)..MaxDocs : Jump(n))
    \/ IsReaderArg /\ NextAgain
SpecRetry == InitRetry /\ [][NextRetry]_vars

(***************************************************************************)
(* What the operations are required to do.                                 *)
(***************************************************************************)
\* C1: value() on a node built from any serialization (whitespace, // comments,
\* one trailing comma per container) of a value v returns a value equal to v.
C1_RoundTrip ==
    (last.op = "value" /\ doc.kind = "value") => (last.err = "" /\ PyEq(last.v, doc.orig))

\* the children of a cut document that were written in full
Written == Len(doc.orig.items)

\* C2: on an object that is well-formed up to the start of the member with key k
\* and malformed afterwards, get(k) returns that member's node, whose value() works
\* when the member is whole; get of a key that is not a member fails; value() of
\* the object fails.
C2_PartialObject ==
    (doc.kind = "tailed" /\ doc.orig.kind = "dict") =>
        /\ (last.op = "getkey" /\ IndexOf(doc.orig.keys, last.key, 1) # 0) =>
              (last.err = "" /\ last.n = doc.offs[IndexOf(doc.orig.keys, last.key, 1)])
        /\ (last.op = "getkey" /\ last.key = <<100>> /\ doc.tail = "open child") =>
              (last.err = "" /\ last.n = Len(doc.data) - 2)
        /\ (last.op = "getkey" /\ last.key = <<120>>) => last.err # ""
        /\ (last.op = "childvalue" /\ IndexOf(doc.orig.keys, last.key, 1) # 0) =>
              (last.err = "" /\ PyEq(last.v, doc.orig.items[IndexOf(doc.orig.keys, last.key, 1)]))
        /\ last.op = "value" => last.err # ""

\* C3: iterating a container whose first m children are well-formed and whose tail
\* is malformed (garbage or end of file) yields those m children in document order
\* without raising; only a step that reads past child m raises.
C3_PartialIteration ==
    (last.op = "next" /\ iter.clean /\ doc.kind = "tailed") =>
        /\ last.k <= Written =>
              /\ last.out = "yield"
              /\ IF doc.orig.kind = "list" THEN last.n = doc.offs[last.k]
                 ELSE last.key = doc.orig.keys[last.k]
        /\ last.out = "error" => last.k > Written

\* C4: length() of a lazyjson array or object node is the number of its top-level
\* elements, whatever get(index), get(key), iteration steps or length() calls
\* came before it.
C4_Length ==
    (impl = "lazyjson" /\ last.op = "len" /\ doc.kind = "value") =>
        (last.err = "" /\ last.n = Len(doc.orig.items))

\* C5: on an array of n elements get(-k), 1 <= k <= n, returns the child that
\* starts where the child of get(n - k) starts; get(-k), k > n, raises IndexError.
C5_NegativeIndex ==
    (last.op = "get" /\ last.k < 0 /\ doc.kind = "value" /\ doc.orig.kind = "list") =>
        IF 0 - last.k <= Len(doc.orig.items)
        THEN last.err = "" /\ last.n = doc.offs[Len(doc.orig.items) + last.k + 1]
        ELSE last.err = "IndexError"

\* C6: next() on a Reader built from a sequence of sources moves to the next
\* document, of the same source or the first of the next source; on the last
\* document of the last source it raises StopIteration, and so does every later call.
C6_VisitAll ==
    (last.op = "next" /\ ~doc.single /\ last.k > 0) =>
        IF last.k < Len(AllDocs)
        THEN last.err = "" /\ DocNumber(rd) = last.k + 1
        ELSE last.err = "StopIteration" /\ DocNumber(rd) = last.k

\* the kind and the keys of the document a Reader is on
RKind(r) == LTypeAt(r.files[r.node_file], r.node)
RKeys(r) ==
    IF RKind(r) # "OBJECT" THEN <<>>
    ELSE LReadObjectChildrenUpTo(r.files[r.node_file], FreshState(r.files[r.node_file]),
                                 r.node, NoKey).st.nodes[r.node].keys

RECURSIVE NextTimes(_, _)
NextTimes(r, n) ==
    IF n = 0 THEN [err |-> "", rd |-> r]
    ELSE With(NextTimes(r, n - 1), LAMBDA p : IF p.err # "" THEN p ELSE RNext(p.rd))

\* C8: jump(n), n >= 0, leaves the Reader as n calls of next() do, with the error
\* of the first call that fails; jump(n), n < 0, raises ValueError and leaves the
\* Reader as it was.
C8_Jump ==
    [][last'.op = "jump" =>
        IF last'.k < 0 THEN last'.err = "ValueError" /\ rd' = rd
        ELSE last'.err = NextTimes(rd, last'.k).err /\ rd' = NextTimes(rd, last'.k).rd]_vars

\* C8: jump(2) moved the Reader from the first document to the third
C8_Witness == last.op = "jump" /\ last.k = 2 /\ last.err = "" /\ DocNumber(rd) = 3

\* C9: value() of a number node is an int when the literal has no ".", "e" or "E",
\* and a float otherwise.
C9_NumberKind ==
    (last.op = "value" /\ doc.kind = "number") =>
        /\ last.err = ""
        /\ last.v.kind = IF \E i \in 1..Len(doc.data) : doc.data[i] \in {".", "e", "E"}
                         THEN "float" ELSE "int"

\* the bytes from the opening quote s[1] through the first quote that an even run
\* of backslashes precedes, None when there is no such quote
RECURSIVE ClosingQuote(_, _, _)
ClosingQuote(s, i, run) ==
    IF i > Len(s) THEN None
    ELSE IF s[i] = "\"" /\ run % 2 = 0 THEN i
    ELSE IF s[i] = "\\" THEN ClosingQuote(s, i + 1, run + 1)
    ELSE ClosingQuote(s, i + 1, 0)

\* C10: measure_string returns the number of bytes from the opening quote through
\* the first unescaped closing quote; a quote is escaped exactly when an odd run of
\* backslashes precedes it.
C10_MeasureString ==
    (last.op = "measure_string" /\ ClosingQuote(doc.data, 2, 0) # None) =>
        (last.err = "" /\ last.n = ClosingQuote(doc.data, 2, 0))

\* a raw CR or LF among s[from..to]
LineBreakIn(s, from, to) == \E i \in from..to : i <= Len(s) /\ s[i] \in {"\r", "\n"}

\* C11: measure_string raises ValueError when the source ends before an unescaped
\* closing quote, and when a raw CR or LF stands between the opening quote and the
\* closing quote; it returns no length for a literal that holds a raw CR or LF.
C11_StringErrors ==
    last.op = "measure_string" =>
        /\ ClosingQuote(doc.data, 2, 0) = None => last.err = "ValueError"
        /\ (ClosingQuote(doc.data, 2, 0) # None
              /\ LineBreakIn(doc.data, 2, ClosingQuote(doc.data, 2, 0))) => last.err = "ValueError"
        /\ last.err = "" => ~LineBreakIn(doc.data, 1, last.n)

\* the number grammar: an optional "-", an integer part that is "0" or starts
\* with a non-zero digit, an optional "." and digits, an optional exponent
IsDigits(t) == Len(t) > 0 /\ \A i \in 1..Len(t) : t[i] \in Digits
IsIntegerPart(t) == t = <<"0">> \/ (IsDigits(t) /\ t[1] # "0")
IsFraction(t) == t = <<>> \/ (t[1] = "." /\ IsDigits(Tail(t)))
IsExponent(t) ==
    \/ t = <<>>
    \/ /\ t[1] \in {"e", "E"}
       /\ \/ IsDigits(Tail(t))
          \/ (Len(t) >= 2 /\ t[2] \in {"+", "-"} /\ IsDigits(SubSeq(t, 3, Len(t))))
IsNumber(t) ==
    \E s \in 0..1, a \in 0..Len(t), b \in 0..Len(t) :
        /\ s <= a /\ a <= b
        /\ s = 1 => (Len(t) > 0 /\ t[1] = "-")
        /\ IsIntegerPart(SubSeq(t, s + 1, a))
        /\ IsFraction(SubSeq(t, a + 1, b))
        /\ IsExponent(SubSeq(t, b + 1, Len(t)))
\* the lengths of the prefixes of t that are numbers
NumberPrefixes(t) == {k \in 1..Len(t) : IsNumber(SubSeq(t, 1, k))}

\* C12: measure_number returns the length of the longest prefix that conforms to
\* the number grammar, and raises ValueError when no non-empty prefix conforms.
C12_MeasureNumber ==
    last.op = "measure_number" =>
        IF NumberPrefixes(doc.data) = {} THEN last.err = "ValueError"
        ELSE /\ last.err = ""
             /\ last.n \in NumberPrefixes(doc.data)
             /\ \A k \in NumberPrefixes(doc.data) : k <= last.n

\* the offset of the line break that ends the comment text starting at offset j,
\* the end of s when there is none
RECURSIVE CommentEnd(_, _)
CommentEnd(s, j) ==
    IF j >= Len(s) \/ s[j + 1] \in {"\n", "\r"} THEN Min(j, Len(s))
    ELSE CommentEnd(s, j + 1)

\* the offset of the first byte at or after offset i that is neither whitespace
\* nor part of a // comment, the end of s when there is none
RECURSIVE FirstSignificant(_, _)
FirstSignificant(s, i) ==
    IF i >= Len(s) THEN Len(s)
    ELSE IF s[i + 1] \in WHITESPACE THEN FirstSignificant(s, i + 1)
    ELSE IF s[i + 1] = "/" /\ i + 1 < Len(s) /\ s[i + 2] = "/"
    THEN FirstSignificant(s, CommentEnd(s, i + 2))
    ELSE i

\* C13: skip_skippable started at any offset stops at the first byte that is
\* neither whitespace nor inside a // comment; a single "/" is not skipped.
C13_SkipSkippable ==
    last.op = "skip_skippable" => last.n = FirstSignificant(doc.data, last.k)

\* len() and value() of a new Node on the document written from doc.orig without
\* any extension
PlainText == SerValue(doc.orig, Plain)
PlainLen ==
    IF impl = "lazyjson"
    THEN LLen(BinFile(PlainText), LNewNode(BinFile(PlainText), FreshState(BinFile(PlainText)), 0).st, 0)
    ELSE SLen(TextFile(PlainText), 0, None)
PlainValue ==
    IF impl = "lazyjson"
    THEN LValue(BinFile(PlainText), LNewNode(BinFile(PlainText), FreshState(BinFile(PlainText)), 0).st, 0)
    ELSE SValue(TextFile(PlainText), 0, None)

\* what C14 says of the operation that has just returned
TrailingCommaOutcome ==
    doc.kind = "commas" =>
        IF doc.tail = "one" /\ doc.orig.items # <<>>
        THEN /\ last.op = "len" =>
                   (last.err = PlainLen.err /\ (last.err = "" => last.n = PlainLen.n))
             /\ last.op = "value" =>
                   (last.err = PlainValue.err /\ (last.err = "" => last.v = PlainValue.v))
             /\ (last.op = "next" /\ iter.clean /\ PlainLen.err = "") =>
                   IF last.k <= Len(doc.orig.items)
                   THEN /\ last.out = "yield"
                        /\ IF doc.orig.kind = "list" THEN last.n = doc.offs[last.k]
                           ELSE last.key = doc.orig.keys[last.k]
                   ELSE last.out = "stop"
        ELSE last.op \in {"len", "value", "end"} => last.err # ""

\* an iteration nothing interleaved with ends on a rejected container only after
\* one of its steps raised
RejectedIteration ==
    (/\ doc.kind = "commas" /\ (doc.tail = "two" \/ doc.orig.items = <<>>)
     /\ last'.op = "next" /\ last'.out = "stop" /\ iter'.clean)
        => (last.op = "next" /\ last.out \in {"error", "stop"})

\* C14: a container written with one trailing comma, blanks around it or not, has
\* the length() and the children of the container written without it; a comma
\* with no element before it and two commas in a row make full discovery fail.
C14_TrailingComma == [](TrailingCommaOutcome) /\ [][RejectedIteration]_vars

\* C14: length() returned 2 on a container of two children written with a
\* trailing comma that has blanks around it
C14_Witness ==
    /\ doc.kind = "commas" /\ doc.tail = "one" /\ Len(doc.orig.items) = 2
    /\ doc.data[Len(doc.data) - 1] = " "
    /\ last.op = "len" /\ last.err = "" /\ last.n = 2

\* C15: on a container whose two children have a blank and no comma between them,
\* length(), value() and end_position() raise, and an iteration nothing
\* interleaved with does not yield the second child.
C15_MissingComma ==
    doc.kind = "nocomma" =>
        /\ last.op \in {"len", "value", "end"} => last.err # ""
        /\ (last.op = "next" /\ iter.clean /\ last.k = 2) => last.out # "yield"

\* the index of the first occurrence of key among ks
FirstIndex(ks, key) == CHOOSE i \in 1..Len(ks) : ks[i] = key /\ \A j \in 1..(i - 1) : ks[j] # key

\* C16: on an object that holds a key more than once, node[key] returns the child
\* of the first occurrence of the key, whatever was discovered before.
C16_FirstOccurrence ==
    (/\ doc.kind = "dup" /\ last.op = "getkey"
     /\ \E i \in 1..Len(doc.orig.keys) : doc.orig.keys[i] = last.key)
        => (last.err = "" /\ last.n = doc.offs[FirstIndex(doc.orig.keys, last.key)])

\* C17: end_position() of a well-formed node is the offset of the first byte
\* after the value, for containers the offset after the closing delimiter.
C17_EndPosition ==
    (doc.kind = "value" /\ last.op = "end")
        => (last.err = "" /\ last.n = Len(doc.data) - doc.root)

\* the children of the document that match item: an array child equal to it,
\* an object key equal to it
Matches(item) ==
    {i \in 1..Len(doc.orig.items) :
        IF doc.orig.kind = "list" THEN PyEq(doc.orig.items[i], item)
        ELSE item = VStr(doc.orig.keys[i])}

\* C18: item in node is True when a child written in full matches, whatever
\* follows it; without a match it is False on a closed container and raises on
\* a cut one.
C18_Membership ==
    (last.op = "in" /\ doc.kind \in {"value", "tailed"}) =>
        IF Matches(last.v) # {} THEN last.err = "" /\ last.out = "True"
        ELSE IF doc.kind = "value" THEN last.err = "" /\ last.out = "False"
        ELSE last.err # ""

\* equality as C19 words it: element by element up to the shorter of an array
\* and a list, key by key over the keys of an object, == on scalars
RECURSIVE ZipEq(_, _)
ZipEq(v, x) ==
    CASE v.kind = "list" ->
            \A i \in 1..Min(Len(v.items), Len(x.items)) : ZipEq(v.items[i], x.items[i])
      [] v.kind = "dict" ->
            \A i \in 1..Len(v.keys) :
                /\ IndexOf(x.keys, v.keys[i], 1) # 0
                /\ ZipEq(v.items[i], x.items[IndexOf(x.keys, v.keys[i], 1)])
      [] OTHER -> PyEq(v, x)

\* the comparisons C19 speaks of: an array against a list, an object against a
\* dict, a scalar against anything, and so for the children they pair
RECURSIVE Comparable(_, _)
Comparable(v, x) ==
    CASE v.kind = "list" ->
            /\ x.kind = "list"
            /\ \A i \in 1..Min(Len(v.items), Len(x.items)) : Comparable(v.items[i], x.items[i])
      [] v.kind = "dict" ->
            /\ x.kind = "dict"
            /\ \A i \in 1..Len(v.keys) :
                  IndexOf(x.keys, v.keys[i], 1) # 0
                      => Comparable(v.items[i], x.items[IndexOf(x.keys, v.keys[i], 1)])
      [] OTHER -> TRUE

\* C19: equals(other) of sleepyjson returns whether the node and other are equal
\* element by element up to the shorter, key by key over the node's keys, and by
\* value() == other on scalars.
C19_Equals ==
    (/\ impl = "sleepyjson" /\ last.op = "equals" /\ doc.kind = "value"
     /\ Comparable(doc.orig, last.v))
        => (last.err = "" /\ (last.out = "True" <=> ZipEq(doc.orig, last.v)))

\* the lazyjson Node and its file with the cursor at t
Moved(t) == [lst EXCEPT !.tell = t]

\* the operation of the step returns and caches the same from the cursor at t
SameFrom(t) ==
    CASE last'.op = "get" ->
            With(LGetIndex(File, Moved(t), root, last'.k), LAMBDA r :
                r.err = last'.err /\ r.child = last'.n /\ r.st.nodes = lst'.nodes)
      [] last'.op = "getkey" ->
            With(LGetKey(File, Moved(t), root, last'.key), LAMBDA r :
                r.err = last'.err /\ r.child = last'.n /\ r.st.nodes = lst'.nodes)
      [] last'.op = "len" ->
            With(LLen(File, Moved(t), root), LAMBDA r :
                r.err = last'.err /\ r.n = last'.n /\ r.st.nodes = lst'.nodes)
      [] last'.op = "value" ->
            With(LValue(File, Moved(t), root), LAMBDA r :
                r.err = last'.err /\ (r.err = "" => r.v = last'.v) /\ r.st.nodes = lst'.nodes)
      [] last'.op = "end" ->
            With(LEndPosition(File, Moved(t), root), LAMBDA r :
                r.err = last'.err /\ (r.err = "" => r.n = last'.n) /\ r.st.nodes = lst'.nodes)
      [] last'.op = "firstvalue" ->
            With(LValue(File, Moved(t), doc.offs[1]), LAMBDA r :
                r.err = last'.err /\ (r.err = "" => r.v = last'.v) /\ r.st.nodes = lst'.nodes)
      [] last'.op = "next" ->
            With(LIterStep(File, Moved(t), root, iter.l), LAMBDA r :
                /\ r.out = last'.out /\ r.err = last'.err /\ r.child = last'.n
                /\ r.key = last'.key /\ r.it = iter'.l /\ r.st.nodes = lst'.nodes)
      [] OTHER -> TRUE

\* an iteration over an array with which only file.seek and first_child.value()
\* were interleaved yields the children in order and then stops
SteadyIteration ==
    (/\ impl = "lazyjson" /\ doc.kind = "value" /\ doc.orig.kind = "list"
     /\ last.op = "next" /\ iter.clean)
        => IF last.k <= Len(doc.orig.items)
           THEN last.out = "yield" /\ last.n = doc.offs[last.k]
           ELSE last.out = "stop"

\* C20: what an operation of a lazyjson Node returns and caches is the same
\* wherever the cursor of the file was left before it, and first_child.value()
\* between the steps of an iteration does not change what it yields.
C20_CursorFree ==
    /\ [][impl = "lazyjson" => \A t \in 0..Len(doc.data) : SameFrom(t)]_vars
    /\ []SteadyIteration

\* C20: the second step of an iteration on an array of two children read the
\* second child from the file and yielded it
C20_Witness ==
    /\ impl = "lazyjson" /\ doc.orig.kind = "list" /\ Len(doc.orig.items) = 2
    /\ last.op = "next" /\ last.k = 2 /\ last.out = "yield" /\ last.n = doc.offs[2]
    /\ iter.clean /\ iter.l.phase = "reading"

\* C21: Reader(files) succeeds where every source is a seekable binary file, one
\* file or a list of them, and raises ValueError where a source is a text file.
C21_ReaderSource ==
    last.op = "Reader" =>
        IF \A i \in 1..Len(doc.files) : doc.files[i].binary /\ doc.files[i].seekable
        THEN last.err = ""
        ELSE last.err = "ValueError"

\* C22: on a container cut before its closing delimiter, node[k] of an array and
\* node[key] of an object never raise IndexError or KeyError: where the element
\* is not found the malformed tail raises ValueError.
C22_NotFoundOnlyWhenClosed ==
    (/\ doc.kind = "tailed"
     /\ \/ last.op = "get" /\ doc.orig.kind = "list"
        \/ last.op = "getkey" /\ doc.orig.kind = "dict")
        => last.err \notin {"IndexError", "KeyError"}

\* the lazyjson Node at p has seen its closing delimiter
Sized(p) == lst.nodes[p].size # None

\* size and end of every Node are unset together or set together, size to the
\* number of cached children and end to the offset after a closing delimiter
SizedTogether ==
    \A p \in DOMAIN lst.nodes :
        /\ lst.nodes[p].size = None <=> lst.nodes[p].end = None
        /\ Sized(p) =>
              /\ lst.nodes[p].size = Len(lst.nodes[p].children)
              /\ lst.nodes[p].end > p /\ lst.nodes[p].end <= Len(doc.data)
              /\ doc.data[lst.nodes[p].end] \in {"]", "}"}

\* a Node that is sized keeps its size, its end and its children, and len(),
\* node[k], node[key] and next() on a sized root leave the cursor where it was
SizedForGood ==
    /\ \A p \in DOMAIN lst.nodes : Sized(p) => lst'.nodes[p] = lst.nodes[p]
    /\ (/\ impl = "lazyjson" /\ Sized(root)
        /\ last'.op \in {"len", "get", "getkey", "next"}) => lst'.tell = lst.tell

\* C23: size and end of a caching container are unset together or set together,
\* once, where the closing delimiter is; from then on size, end and the cached
\* children never change and len(), node[k] and iteration read nothing.
C23_SizedOnce == []SizedTogether /\ [][SizedForGood]_vars

\* C23: node[1] answered from the cache of an array sized with two children
C23_Witness ==
    /\ impl = "lazyjson" /\ doc.orig.kind = "list" /\ Sized(root)
    /\ lst.nodes[root].size = 2 /\ lst.nodes[root].end = Len(doc.data)
    /\ last.op = "get" /\ last.k = 1 /\ last.err = "" /\ last.n = doc.offs[2]

\* what the code's own chunk of 1024 gives on the document
WholeRead ==
    IF last.op = "measure_string"
    THEN IF impl = "lazyjson" THEN LMeasureString(File, 0) ELSE SMeasureString(File, 0)
    ELSE IF impl = "lazyjson" THEN LMeasureNumber(File, 0) ELSE SMeasureNumber(File, 0)

\* C24: measure_string and measure_number give, for every chunk size, the length
\* or the kind of error they give when one read holds the whole input.
C24_ChunkFree ==
    last.op \in {"measure_string", "measure_number"} =>
        /\ last.err = WholeRead.err
        /\ last.err = "" => last.n = WholeRead.n

ErrorNames == {"ValueError", "IndexError", "KeyError", "TypeError", "StopIteration"}

\* a call that follows a call of the same operation with the same arguments
\* that raised, raises the same
RaisesAgain ==
    (/\ last.err # "" /\ last.op \in {"get", "getkey", "len", "value", "end", "next", "jump"}
     /\ last'.op = last.op /\ last'.k = last.k /\ last'.key = last.key)
        => last'.err = last.err

RECURSIVE Decoded(_, _, _)
Decoded(body, i, acc) ==
    IF i > Len(body) THEN [err |-> "", text |-> acc]
    ELSE IF body[i] # "\\" THEN Decoded(body, i + 1, Append(acc, Ord(body[i])))
    ELSE IF i + 1 <= Len(body) /\ EscapeMap(body[i + 1]) # None
    THEN Decoded(body, i + 2, Append(acc, EscapeMap(body[i + 1])))
    ELSE IF /\ i + 5 <= Len(body) /\ body[i + 1] = "u"
            /\ \A j \in (i + 2)..(i + 5) : body[j] \in HexDigits
    THEN Decoded(body, i + 6, Append(acc, HexValue(SubSeq(body, i + 2, i + 5), 1, 0)))
    ELSE [err |-> "ValueError", text |-> <<>>]

Meant == Decoded(SubSeq(doc.data, 2, Len(doc.data) - 1), 1, <<>>)

\* C26: value() on a string literal gives the characters the literal stands
\* for, every escape replaced by its one character, and raises ValueError on
\* an unknown escape letter and on \u with fewer than four hexadecimal digits.
C26_Unescape ==
    last.op = "value" =>
        IF Meant.err = "" THEN last.err = "" /\ last.v = VStr(Meant.text)
        ELSE last.err = "ValueError"


\* a // comment starts at offset k of the source and no slash follows its end
CommentAt(k) ==
    /\ k + 2 <= Len(doc.data)
    /\ doc.data[k + 1] = "/" /\ doc.data[k + 2] = "/"
    /\ \A j \in (CommentEnd(doc.data, k + 2) + 1)..Len(doc.data) : doc.data[j] # "/"

\* C27: a // comment ends at the first LF, at the first CR, or at a CR LF
\* pair: skip_skippable started on the comment stops at the first significant
\* byte after that line break.
C27_CommentEnds ==
    (last.op = "skip_skippable" /\ CommentAt(last.k))
        => last.n = FirstSignificant(doc.data, last.k)


\* C28: the steps of an iterator over a well-formed container yield every child
\* (every key of an object) once and in document order, whatever node[k],
\* node[key], len() or value() calls are made between the steps.
C28_InterleavedIteration ==
    (last.op = "next" /\ doc.kind = "value") =>
        /\ last.err = ""
        /\ last.k <= Len(doc.orig.items) =>
              /\ last.out = "yield"
              /\ IF doc.orig.kind = "list" THEN last.n = doc.offs[last.k]
                 ELSE last.key = doc.orig.keys[last.k]
        /\ last.k > Len(doc.orig.items) => last.out = "stop"


\* the node and other are of different kinds: an array and no list, an object
\* and no dict, a scalar and a list or dict, or an object with a list or dict
\* under a key that other, a dict, does not have
KindsDiffer(v, other) ==
    \/ v.kind = "list" /\ other.kind # "list"
    \/ v.kind = "dict" /\ other.kind # "dict"
    \/ v.kind \notin {"list", "dict"} /\ other.kind \in {"list", "dict"}
    \/ /\ v.kind = "dict" /\ other.kind = "dict"
       /\ \E i \in 1..Len(v.keys) :
             /\ v.items[i].kind \in {"list", "dict"}
             /\ IndexOf(other.keys, v.keys[i], 1) = 0

\* C29: equals(other) of sleepyjson returns False and does not raise when the
\* node and other are of different kinds.
C29_KindMismatch ==
    (/\ impl = "sleepyjson" /\ last.op = "equals" /\ doc.kind = "value"
     /\ KindsDiffer(doc.orig, last.v))
        => (last.err = "" /\ last.out = "False")


\* the source cut after the first unescaped closing quote, and measure_string
\* on it
Literal == SubSeq(doc.data, 1, ClosingQuote(doc.data, 2, 0))
OnLiteral ==
    IF impl = "lazyjson" THEN LMeasureString(BinFile(Literal), 0)
    ELSE SMeasureString(TextFile(Literal), 0)

\* C30: the outcome of measure_string depends only on the bytes up to and
\* including the first unescaped closing quote: it is the outcome on the
\* source cut there, whatever follows.
C30_PrefixOnly ==
    (last.op = "measure_string" /\ ClosingQuote(doc.data, 2, 0) # None) =>
        /\ last.err = OnLiteral.err
        /\ last.err = "" => last.n = OnLiteral.n

====
